---- MODULE Spec2Model ----
(***************************************************************************)
(* Control plane of the N3xx peripheral manager (n3xx.py): reference clock *)
(* and time source selection, session init/deinit and device boot.         *)
(*                                                                         *)
(* The foreground thread is modelled statement group by statement group:   *)
(* pc is its position, ret the stack of return labels of the calls in      *)
(* progress.  hw_log records, in order, what the current top-level call    *)
(* has done to the collaborators (registers, GPIO expander, daughter-      *)
(* boards) and to the recorded sources; it is emptied when the call has    *)
(* returned to the dispatcher.                                             *)
(*                                                                         *)
(* Spec is the device from construction on, with the clock and time calls  *)
(* of its sessions; SpecXport is a device after its boot with the          *)
(* transport calls of its sessions (request_xport, commit_xport, deinit);  *)
(* SpecSync is a device after its boot with the clock and time calls and   *)
(* a foreground thread that keeps running; SpecMonitor and SpecTearDown    *)
(* are a device without daughterboards from construction on, its status    *)
(* monitor thread running beside init, deinit and tear_down.               *)
(* SpecXportMode is SpecXport with every connection mode a session can     *)
(* have; SpecLeds is the device of SpecMonitor claimed and unclaimed by    *)
(* its sessions; SpecRegs is MboardRegsControl of e320_periphs.py, its     *)
(* read-modify-write calls beside another opener of the registers.         *)
(***************************************************************************)
EXTENDS Integers, Sequences, FiniteSets, TLC

\* Largest number of daughterboard slots explored.
MaxDboards == 2

\* Python's None for a source name, and for the external frequency (MHz).
None == "None"
NoFreq == 0

\* Frequencies are in MHz.
N3XX_DEFAULT_EXT_CLOCK_FREQ == 10
N3XX_DEFAULT_CLOCK_SOURCE == "internal"
N3XX_DEFAULT_TIME_SOURCE == "internal"
N3XX_DEFAULT_ENABLE_PPS_EXPORT == TRUE
N3XX_FPGA_COMPAT == <<5, 3>>
INTERNAL_REF_FREQ == 25
GPSDO_REF_FREQ == 20
\* An external frequency no list of the program contains.
OtherFreq == 30

\* Number of endpoint addresses explored; the program's pool is range(256).
PoolSize == 6

\* N3XX_MONITOR_THREAD_INTERVAL in units of model time, and the number of
\* intervals tear_down waits for the monitor thread (line 470).
MonitorIntervalTicks == 2
JoinIntervals == 3
\* Largest count kept of the sampling cycles started after the flag was set.
MaxCyclesCounted == 3

\* poll_with_timeout(..., 40000, 1000)
WR_LOCK_TIMEOUT_MS == 40000
WR_LOCK_POLL_MS == 1000

get_clock_sources == {"external", "internal", "gpsdo"}
get_time_sources == {"internal", "external", "gpsdo", "sfp0"}

valid_sync_sources_gpsdo_internal ==
    { <<"internal", "internal">>, <<"internal", "sfp0">>,
      <<"external", "external">>, <<"external", "internal">>,
      <<"gpsdo", "gpsdo">>, <<"gpsdo", "internal">> }

valid_sync_sources_external_sfp0 ==
    { <<"internal", "internal">>, <<"internal", "sfp0">>,
      <<"external", "external">>, <<"external", "internal">>,
      <<"gpsdo", "gpsdo">>, <<"external", "sfp0">> }

valid_sync_sources ==
    { <<"internal", "internal">>, <<"internal", "sfp0">>,
      <<"external", "external">>, <<"external", "internal">>,
      <<"gpsdo", "gpsdo">> }

sfp_time_source_images == {"WX"}
FpgaTypes == {"WX", "HG"}

\* A dict entry is the empty set when the key is absent, {v} when present.
DictGet(entry, default) == IF entry = {} THEN default ELSE CHOOSE v \in entry : TRUE

\* Values a caller may pass; "bogus" stands for any unsupported name.
ArgClock == {{}, {"internal"}, {"external"}, {"gpsdo"}, {"bogus"}}
ArgTime == {{}, {"internal"}, {"external"}, {"gpsdo"}, {"sfp0"}, {"bogus"}}
ArgBool == {{}, {FALSE}}
FreqRequests == {10, 20, 25, OtherFreq}

\* A daughterboard handle: whether it has set_clk_safe_state.
BoardKinds == [has_safe : BOOLEAN]
DboardConfigs == UNION { [1..n -> BoardKinds] : n \in 0..MaxDboards }

GpioLines == {"CLK-MAINSEL-EX_B", "CLK-MAINSEL-25MHz", "CLK-MAINSEL-GPS"}

VARIABLES
    \* fields of the n3xx object
    clock_source, time_source, ext_clock_freq,
    device_initialized, regs_up, fpga_type, xport_mgrs_up, monitor_thread,
    dboards,
    \* collaborators
    gpio, ref_clk_en, pps_out, reg_time_sel,
    \* foreground thread
    pc, ret, op, result, hw_log, retry, last_failed,
    \* locals of the call in progress
    boot_args, init_args, init_result, sts_time, srcf_freq, pre,
    ss_args, ss_clock, ss_time, ss_freq, ss_i, ss_base, ss_pre,
    ss_status, ss_failpc, poll_elapsed,
    \* transport: the free pool, the connection mode, the locals of the
    \* transport call in progress; since the last reset of the pool, the
    \* addresses whose commit a backend carried out and the addresses
    \* commit_xport took from the pool; the request before this call
    available_endpoints, rpc_connection, xp, committed, xp_prev,
    \* the tear-down flag; the monitor thread: its position, the time left of
    \* its wait, and since the flag was set the sampling cycles it has started
    \* and the time it has spent waiting; the threads started so far; the time
    \* left of the join of tear_down
    tear_down, mon_pc, mon_wait, mon_cycles, mon_waited, spawned, join_left,
    \* the back-panel LED bank: whether line 324 has created it, and the
    \* indicators set so far, each with the thread that set it
    bp_leds,
    \* MboardRegsControl of e320_periphs.py: the registers; who holds the
    \* register window; the call in progress, its position, the values it is
    \* about to write and the index of the next one, the exception on its
    \* way out, its outcome; the accesses made since the call began; how
    \* many of them another opener made
    mb_regs, mb_owner, mb_call, mb_pc, mb_vals, mb_i, mb_err, mb_result,
    mb_log, mb_others,
    \* the calls MboardRegsControl has been given so far
    mb_calls

recVars == <<clock_source, time_source, ext_clock_freq>>
devVars == <<device_initialized, regs_up, fpga_type, xport_mgrs_up, monitor_thread>>
hwVars == <<gpio, ref_clk_en, pps_out, reg_time_sel>>
ssLocals == <<ss_args, ss_clock, ss_time, ss_freq, ss_i, ss_base, ss_pre,
              ss_status, ss_failpc, poll_elapsed>>
opLocals == <<boot_args, init_args, init_result, sts_time, srcf_freq, pre>>
ghostVars == <<op, retry, last_failed>>
xportVars == <<available_endpoints, rpc_connection, xp, committed, xp_prev>>
monVars == <<tear_down, mon_pc, mon_wait, mon_cycles, mon_waited, spawned, join_left>>
mbVars == <<mb_regs, mb_owner, mb_call, mb_pc, mb_vals, mb_i, mb_err, mb_result,
            mb_log, mb_others, mb_calls>>

vars == <<clock_source, time_source, ext_clock_freq,
          device_initialized, regs_up, fpga_type, xport_mgrs_up, monitor_thread,
          dboards, gpio, ref_clk_en, pps_out, reg_time_sel,
          pc, ret, op, result, hw_log, retry, last_failed,
          boot_args, init_args, init_result, sts_time, srcf_freq, pre,
          ss_args, ss_clock, ss_time, ss_freq, ss_i, ss_base, ss_pre,
          ss_status, ss_failpc, poll_elapsed,
          available_endpoints, rpc_connection, xp, committed, xp_prev,
          tear_down, mon_pc, mon_wait, mon_cycles, mon_waited, spawned, join_left,
          bp_leds,
          mb_regs, mb_owner, mb_call, mb_pc, mb_vals, mb_i, mb_err, mb_result,
          mb_log, mb_others, mb_calls>>

-----------------------------------------------------------------------------
\* Entries of hw_log.
Ev(o, n, c, s, v) == [op |-> o, name |-> n, clk |-> c, slot |-> s, val |-> v]
EvSafe(slot) == Ev("safe", "", "", slot, 0)
EvRefClk(en) == Ev("ref_clk", "", "", 0, IF en THEN 1 ELSE 0)
EvGpio(line, v) == Ev("gpio", line, "", 0, v)
EvRecClock(c) == Ev("rec_clock", c, "", 0, 0)
EvSleep == Ev("sleep", "", "", 0, 100)
EvRecTime(t) == Ev("rec_time", t, "", 0, 0)
EvRegTime(t, f) == Ev("reg_time", t, "", 0, f)
EvWrLock == Ev("wr_lock", "", "", 0, 0)
EvUpdate(slot, f, t, c) == Ev("update", t, c, slot, f)
EvPpsOut(en) == Ev("pps_out", "", "", 0, IF en THEN 1 ELSE 0)
EvDbInit == Ev("db_init", "", "", 0, 0)
EvXportInit == Ev("xport_init", "", "", 0, 0)
EvXportDeinit == Ev("xport_deinit", "", "", 0, 0)
EvDbDeinit == Ev("db_deinit", "", "", 0, 0)
EvRail(line, v) == Ev("rail", line, "", 0, v)

NoArgs == [clock_source |-> {}, time_source |-> {}]
NoBootArgs == [clock_source |-> {}, time_source |-> {}, ext_clock_freq |-> {}]
\* The arguments of init; given keeps clock_source and time_source as the
\* caller passed them, before lines 422-423 fill them in.
NoInitArgs == [clock_source |-> {}, time_source |-> {}, pps_export |-> {},
               given |-> << {}, {} >>]
\* The recorded sources and the collaborators' state, as a call finds them.
NoPre == [clock |-> None, time |-> None, freq |-> NoFreq,
          gpio |-> [l \in GpioLines |-> 0], ref_clk_en |-> FALSE,
          pps_out |-> FALSE, reg_time_sel |-> None]
Snapshot == [clock |-> clock_source, time |-> time_source, freq |-> ext_clock_freq,
             gpio |-> gpio, ref_clk_en |-> ref_clk_en,
             pps_out |-> pps_out, reg_time_sel |-> reg_time_sel]

\* _bp_leds before line 324 (None, line 220) and as line 324 creates it.
NoLeds == [made |-> FALSE, set |-> {}]
NewLeds == [made |-> TRUE, set |-> {}]

FullPool_from_one == [i \in 1..PoolSize |-> i]

\* list(range(256)), lines 219 and 459.
FullPool == [i \in 1..PoolSize |-> i - 1]

\* The locals of a transport call: the suggested source address and the
\* destination address of a request, the SID of the endpoint a commit is given,
\* the SID of the endpoint a request returns, and the pool the call found.
\* -1 stands for a value the call does not have.
NoXp == [suggested |-> -1, dst |-> -1, sid |-> -1, ret |-> -1, pool |-> <<>>]

(***************************************************************************)
(* MboardRegsControl of e320_periphs.py.  A 32-bit register value is the   *)
(* set of the positions of its one bits, so that & is intersection, | is   *)
(* union and ^ is the symmetric difference, and nothing above bit 31       *)
(* exists.                                                                 *)
(***************************************************************************)
AllBits == 0..31
BitAnd(a, b) == a \cap b
BitOr(a, b) == a \cup b
BitXor(a, b) == (a \ b) \cup (b \ a)
ShiftLeft(a, k) == {b + k : b \in a} \cap AllBits

\* The registers the read-modify-write calls touch (lines 57, 62, 65, 67).
RegNames == {"MB_CLOCK_CTRL", "MB_GPIO_CTRL", "MB_GPS_CTRL", "MB_DBOARD_CTRL"}

\* Bit positions, lines 72-97.
MB_CLOCK_CTRL_PPS_SEL_INT == 0
MB_CLOCK_CTRL_PPS_SEL_EXT == 1
MB_CLOCK_CTRL_REF_SEL == 2
MB_CLOCK_CTRL_REF_CLK_LOCKED == 3
MB_GPIO_CTRL_BUFFER_OE_N == 0
MB_GPIO_CTRL_EN_VAR_SUPPLY == 1
MB_GPIO_CTRL_EN_2V5 == 2
MB_GPIO_CTRL_EN_3V3 == 3
MB_GPS_CTRL_PWR_EN == 0
MB_DBOARD_CTRL_MIMO == 0
MB_DBOARD_CTRL_TX_CHAN_SEL == 1

\* 0xFFFFFFFF, and the literals of set_time_source: 0xFFFFFF90 (line 263)
\* keeps bits 4 and 7 of the low byte, 0x6F (line 266) is the other six.
Hex_FFFFFFFF == AllBits
Hex_FFFFFF90 == AllBits \ {0, 1, 2, 3, 5, 6}
Hex_6F == {0, 1, 2, 3, 5, 6}

\* A Python bool as the integer the shift operators take it for.
BoolBits(b) == IF b = "True" THEN {0} ELSE {}
\* not x, for an integer x, as the integer the | operator takes it for.
NotBits(x) == IF x = {} THEN {0} ELSE {}

\* Lines 252-261 and 274-283: the select value of a source; the callers
\* below only ask for the sources that pass the assert of the else branch.
pps_sel_val(source) ==
    IF source \in {"internal", "gpsdo"}
    THEN ShiftLeft({0}, MB_CLOCK_CTRL_PPS_SEL_INT)
    ELSE ShiftLeft({0}, MB_CLOCK_CTRL_PPS_SEL_EXT)
ref_sel_val(clock_source_arg) ==
    IF clock_source_arg \in {"internal", "gpsdo"} THEN {} ELSE {0}
\* Lines 151-156.
voltage_reg(value) ==
    CASE value = "1.8" -> {}
      [] value = "2.5" -> {0}
      [] value = "3.3" -> {1}

\* The calls explored, as <<function, argument>>.
RegsCalls ==
    ({"set_time_source", "set_clock_source"} \X {"internal", "external", "gpsdo", "sfp0"})
    \cup ({"enable_gps", "enable_fp_gpio"} \X {"True", "False"})
    \cup ({"set_fp_gpio_voltage"} \X {"3.3", "2.5", "1.8"})
    \cup ({"set_channel_mode"} \X {"MIMO", "SISO_TX1", "SISO_TX0", "2R2T"})

\* What a function checks before it opens the registers: the asserts of
\* lines 261, 283 and 149.
ArgsAccepted(fn, arg) ==
    CASE fn \in {"set_time_source", "set_clock_source"} ->
             arg \in {"internal", "gpsdo", "external"}
      [] fn = "set_fp_gpio_voltage" -> arg = "3.3"
      [] OTHER -> TRUE

\* The register a function reads and writes.
RegOf(fn) ==
    CASE fn \in {"set_time_source", "set_clock_source"} -> "MB_CLOCK_CTRL"
      [] fn \in {"set_fp_gpio_voltage", "enable_fp_gpio"} -> "MB_GPIO_CTRL"
      [] fn = "enable_gps" -> "MB_GPS_CTRL"
      [] fn = "set_channel_mode" -> "MB_DBOARD_CTRL"

\* set_time_source without the cleared value written first.
PokeValues_single_write(fn, arg, peeked) ==
    LET reg_val == BitAnd(peeked, Hex_FFFFFF90)
    IN  << BitOr(reg_val, BitAnd(pps_sel_val(arg), Hex_6F)) >>

\* The values a function pokes, in order, given the value its peek returned:
\* the bodies of the with-blocks of lines 262-268, 285-289, 340-344, 159-163,
\* 132-137 and 367-384.
PokeValues(fn, arg, peeked) ==
    CASE fn = "set_time_source" ->
             LET reg_val == BitAnd(peeked, Hex_FFFFFF90)
             IN  << reg_val, BitOr(reg_val, BitAnd(pps_sel_val(arg), Hex_6F)) >>
      [] fn = "set_clock_source" ->
             LET mask == BitXor(Hex_FFFFFFFF, ShiftLeft({0}, MB_CLOCK_CTRL_REF_SEL))
             IN  << BitOr(BitAnd(peeked, mask),
                          ShiftLeft(ref_sel_val(arg), MB_CLOCK_CTRL_REF_SEL)) >>
      [] fn = "enable_gps" ->
             LET mask == BitXor(Hex_FFFFFFFF, ShiftLeft({0}, MB_GPS_CTRL_PWR_EN))
             IN  << BitOr(BitAnd(peeked, mask),
                          ShiftLeft(BoolBits(arg), MB_GPS_CTRL_PWR_EN)) >>
      [] fn = "set_fp_gpio_voltage" ->
             LET mask == BitXor(Hex_FFFFFFFF,
                                BitOr(ShiftLeft({0}, MB_GPIO_CTRL_EN_3V3),
                                      ShiftLeft({0}, MB_GPIO_CTRL_EN_2V5)))
             IN  << BitOr(BitAnd(peeked, mask),
                          ShiftLeft(voltage_reg(arg), MB_GPIO_CTRL_EN_2V5)) >>
      [] fn = "enable_fp_gpio" ->
             LET mask == BitXor(Hex_FFFFFFFF,
                                BitOr(ShiftLeft({0}, MB_GPIO_CTRL_BUFFER_OE_N),
                                      ShiftLeft({0}, MB_GPIO_CTRL_EN_VAR_SUPPLY)))
             IN  << BitOr(BitOr(BitAnd(peeked, mask),
                                NotBits(ShiftLeft(BoolBits(arg), MB_GPIO_CTRL_BUFFER_OE_N))),
                          ShiftLeft(BoolBits(arg), MB_GPIO_CTRL_EN_VAR_SUPPLY)) >>
      [] fn = "set_channel_mode" ->
             << CASE arg = "MIMO" -> ShiftLeft({0}, MB_DBOARD_CTRL_MIMO)
                  [] arg = "SISO_TX1" -> ShiftLeft({0}, MB_DBOARD_CTRL_TX_CHAN_SEL)
                  [] arg = "SISO_TX0" -> {}
                  [] OTHER -> peeked >>

\* An access to the registers: who made it, what it was, and for the calling
\* thread the register and the value read or written.
Access(who, kind, reg, val) == [who |-> who, kind |-> kind, reg |-> reg, val |-> val]

NoCall == [name |-> "", arg |-> "", fn |-> "", fnarg |-> ""]

\* No call in progress and nobody in the registers.
RegsIdle ==
    /\ mb_owner = "none"
    /\ mb_call = NoCall
    /\ mb_pc = "idle"
    /\ mb_vals = <<>>
    /\ mb_i = 0
    /\ mb_err = ""
    /\ mb_result = ""
    /\ mb_log = <<>>
    /\ mb_others = 0
    /\ mb_calls = 0

\* The register block of a device whose MboardRegsControl is not exercised.
RegsQuiet ==
    /\ mb_regs = [r \in RegNames |-> {}]
    /\ RegsIdle

\* n3xx.__init__, lines 214-221, before the base class has looked at the board.
DeviceInit ==
    /\ clock_source = None
    /\ time_source = None
    /\ ext_clock_freq = NoFreq
    /\ device_initialized = FALSE
    /\ regs_up = FALSE
    /\ fpga_type = ""
    /\ xport_mgrs_up = FALSE
    /\ monitor_thread = None
    /\ dboards \in DboardConfigs
    /\ gpio \in [GpioLines -> 0..1]
    /\ ref_clk_en = FALSE
    /\ pps_out = FALSE
    /\ reg_time_sel = None
    /\ pc = "new"
    /\ ret = <<>>
    /\ op = ""
    /\ result = ""
    /\ hw_log = <<>>
    /\ retry = FALSE
    /\ last_failed = {}
    /\ boot_args = NoBootArgs
    /\ init_args = NoInitArgs
    /\ init_result = ""
    /\ sts_time = None
    /\ srcf_freq = NoFreq
    /\ pre = NoPre
    /\ ss_args = NoArgs
    /\ ss_clock = None
    /\ ss_time = None
    /\ ss_freq = NoFreq
    /\ ss_i = 0
    /\ ss_base = 0
    /\ ss_pre = NoPre
    /\ ss_status = ""
    /\ ss_failpc = ""
    /\ poll_elapsed = 0
    /\ available_endpoints = FullPool
    /\ rpc_connection = "remote"
    /\ xp = NoXp
    /\ committed = {}
    /\ xp_prev = NoXp
    /\ tear_down = FALSE
    /\ mon_pc = "none"
    /\ mon_wait = 0
    /\ mon_cycles = 0
    /\ mon_waited = 0
    /\ spawned = 0
    /\ join_left = 0
    /\ bp_leds = NoLeds

\* A device as its constructor leaves it, beside a register block nobody uses.
Init == DeviceInit /\ RegsQuiet

-----------------------------------------------------------------------------
\* Call, return and exception propagation of the foreground thread.

\* A function returns val to its caller, or to the dispatcher.
DoReturn(val) ==
    /\ pc' = IF ret = <<>> THEN "done" ELSE Head(ret)
    /\ ret' = IF ret = <<>> THEN ret ELSE Tail(ret)
    /\ result' = IF ret = <<>> THEN val ELSE result

\* Where an exception raised under the return label stack r lands: in the
\* except clause of the innermost enclosing try block of __init__ (lines 228
\* and 235), or at the dispatcher.
RECURSIVE RaiseTarget(_)
RaiseTarget(r) ==
    IF r = <<>> THEN [pc |-> "done", ret |-> <<>>, caught |-> FALSE]
    ELSE IF Head(r) = "boot_init" THEN [pc |-> "boot_except", ret |-> Tail(r), caught |-> TRUE]
    ELSE IF Head(r) = "boot_end" THEN [pc |-> "boot_end", ret |-> Tail(r), caught |-> TRUE]
    ELSE RaiseTarget(Tail(r))

\* A statement raises kind.
DoRaise(kind) ==
    /\ pc' = RaiseTarget(ret).pc
    /\ ret' = RaiseTarget(ret).ret
    /\ result' = IF RaiseTarget(ret).caught THEN result ELSE kind

\* Entry of set_sync_source(args) with return label stack r and log lg, in the
\* state snap.
CallSetSyncSource(args, r, lg, snap) ==
    /\ pc' = "ss_entry"
    /\ ret' = r
    /\ hw_log' = lg
    /\ ss_args' = args
    /\ ss_base' = Len(lg)
    /\ ss_pre' = snap
    /\ ss_clock' = None
    /\ ss_time' = None
    /\ ss_freq' = NoFreq
    /\ ss_i' = 0
    /\ ss_status' = "running"
    /\ ss_failpc' = ""
    /\ poll_elapsed' = 0

-----------------------------------------------------------------------------
\* set_sync_source, n3xx.py lines 616-712.

\* A getter that would answer the external frequency whatever the source.
get_ref_clock_freq_external(c, e) == e

\* get_ref_clock_freq, lines 746-752, of clock source c and external frequency e.
get_ref_clock_freq(c, e) ==
    CASE c = "internal" -> INTERNAL_REF_FREQ
      [] c = "external" -> e
      [] c = "gpsdo" -> GPSDO_REF_FREQ
      [] OTHER -> NoFreq

SameAsCurrent_never(c, t) == FALSE

SameAsCurrent_always(c, t) == TRUE

\* Line 626: the request matches the previous assignment.
SameAsCurrent(c, t) == (c = clock_source) /\ (t = time_source)

\* Writes that would leave the GPS line alone when the external source is
\* selected.
GpioWrites_gps_untouched(c) ==
    IF c = "internal"
    THEN << <<"CLK-MAINSEL-EX_B", 1>>, <<"CLK-MAINSEL-25MHz", 1>>, <<"CLK-MAINSEL-GPS", 0>> >>
    ELSE IF c = "gpsdo"
    THEN << <<"CLK-MAINSEL-EX_B", 1>>, <<"CLK-MAINSEL-25MHz", 0>>, <<"CLK-MAINSEL-GPS", 1>> >>
    ELSE << <<"CLK-MAINSEL-EX_B", 0>>, <<"CLK-MAINSEL-25MHz", 1>> >>

\* Lines 644-656: the writes to the source-select lines, in program order.
GpioWrites(c) ==
    IF c = "internal"
    THEN << <<"CLK-MAINSEL-EX_B", 1>>, <<"CLK-MAINSEL-25MHz", 1>>, <<"CLK-MAINSEL-GPS", 0>> >>
    ELSE IF c = "gpsdo"
    THEN << <<"CLK-MAINSEL-EX_B", 1>>, <<"CLK-MAINSEL-25MHz", 0>>, <<"CLK-MAINSEL-GPS", 1>> >>
    ELSE << <<"CLK-MAINSEL-EX_B", 0>>, <<"CLK-MAINSEL-GPS", 0>>, <<"CLK-MAINSEL-25MHz", 1>> >>

\* The state of the lines g after the writes ws (the last write to a line stays).
ApplyWrites(g, ws) ==
    [l \in DOMAIN g |->
        IF \E i \in 1..Len(ws) : ws[i][1] = l
        THEN LET last == CHOOSE i \in 1..Len(ws) :
                            /\ ws[i][1] = l
                            /\ \A j \in (i+1)..Len(ws) : ws[j][1] # l
             IN ws[last][2]
        ELSE g[l]]

GpioEvents(ws) == [i \in 1..Len(ws) |-> EvGpio(ws[i][1], ws[i][2])]

ApplySequence_refon_early ==
    << "ss_safe", "ss_refoff", "ss_refon", "ss_gpio", "ss_recclock", "ss_settle",
       "ss_settime", "ss_wr", "ss_update" >>

ApplySequence_update_early ==
    << "ss_safe", "ss_refoff", "ss_gpio", "ss_recclock", "ss_settle",
       "ss_update", "ss_refon", "ss_settime", "ss_wr" >>

\* The order of the statement groups of lines 636-712.
ApplySequence ==
    << "ss_safe", "ss_refoff", "ss_gpio", "ss_recclock", "ss_settle",
       "ss_refon", "ss_settime", "ss_wr", "ss_update" >>

\* The statement group after p; the function returns after the last one.
StepAfter(p) ==
    LET i == CHOOSE k \in 1..Len(ApplySequence) : ApplySequence[k] = p
    IN IF i = Len(ApplySequence) THEN "ss_exit" ELSE ApplySequence[i + 1]

SsGoto(p) ==
    /\ pc' = p
    /\ ss_i' = 1
    /\ ss_status' = IF p = "ss_exit" THEN "ok" ELSE ss_status
    /\ UNCHANGED ss_failpc

SsStay ==
    /\ ss_i' = ss_i + 1
    /\ UNCHANGED <<pc, ss_status, ss_failpc>>

\* A failing statement whose error would be noted while the call carries on
\* with the statement after it.
SsFail_continue(kind) ==
    /\ pc' = IF pc = "ss_entry" THEN "ss_exit"
             ELSE IF pc \in {"ss_safe", "ss_update"} THEN pc
             ELSE IF pc = "ss_poll" THEN StepAfter("ss_wr")
             ELSE StepAfter(pc)
    /\ ss_i' = IF pc \in {"ss_safe", "ss_update"} THEN ss_i + 1 ELSE 1
    /\ ss_status' = kind
    /\ ss_failpc' = pc

\* A failing statement where the assertions of the validation would not be
\* evaluated: the call carries on with the apply sequence.
SsFail_no_assert(kind) ==
    /\ pc' = IF pc = "ss_entry" THEN Head(ApplySequence) ELSE "ss_exit"
    /\ ss_status' = IF pc = "ss_entry" THEN ss_status ELSE kind
    /\ ss_failpc' = IF pc = "ss_entry" THEN ss_failpc ELSE pc
    /\ ss_i' = IF pc = "ss_entry" THEN 1 ELSE ss_i

\* What a failing statement of set_sync_source does to the control state.
SsFail(kind) ==
    /\ pc' = "ss_exit"
    /\ ss_status' = kind
    /\ ss_failpc' = pc
    /\ UNCHANGED ss_i

\* What no statement of set_sync_source touches.
SsFrame ==
    UNCHANGED <<ext_clock_freq, devVars, dboards, pps_out, opLocals, ghostVars,
                ret, result, ss_args, ss_base, ss_pre, xportVars, bp_leds, mbVars, monVars>>

\* Lines 622-631.
SsValidate ==
    /\ pc = "ss_entry"
    /\ LET c == DictGet(ss_args.clock_source, clock_source)
           t == DictGet(ss_args.time_source, time_source)
       IN /\ ss_clock' = c
          /\ ss_time' = t
          /\ IF c \notin get_clock_sources THEN SsFail("AssertionError")
             ELSE IF t \notin get_time_sources THEN SsFail("AssertionError")
             ELSE IF SameAsCurrent(c, t) THEN SsGoto("ss_exit")
             ELSE IF <<c, t>> \notin valid_sync_sources THEN SsFail("AssertionError")
             ELSE SsGoto(Head(ApplySequence))
    /\ UNCHANGED <<clock_source, time_source, gpio, ref_clk_en, reg_time_sel,
                   hw_log, ss_freq, poll_elapsed>>
    /\ SsFrame

\* Lines 636-640, one daughterboard per step.
SsSafeState ==
    /\ pc = "ss_safe"
    /\ IF ss_i > Len(dboards)
       THEN SsGoto(StepAfter("ss_safe")) /\ UNCHANGED hw_log
       ELSE IF dboards[ss_i].has_safe
       THEN \E ok \in BOOLEAN :
               IF ok THEN SsStay /\ hw_log' = Append(hw_log, EvSafe(ss_i))
               ELSE SsFail("BoardError") /\ UNCHANGED hw_log
       ELSE SsStay /\ UNCHANGED hw_log
    /\ UNCHANGED <<clock_source, time_source, gpio, ref_clk_en, reg_time_sel,
                   ss_clock, ss_time, ss_freq, poll_elapsed>>
    /\ SsFrame

\* Line 642.
SsDisableRefClk ==
    /\ pc = "ss_refoff"
    /\ IF regs_up
       THEN /\ ref_clk_en' = FALSE
            /\ hw_log' = Append(hw_log, EvRefClk(FALSE))
            /\ SsGoto(StepAfter("ss_refoff"))
       ELSE SsFail("AttributeError") /\ UNCHANGED <<ref_clk_en, hw_log>>
    /\ UNCHANGED <<clock_source, time_source, gpio, reg_time_sel,
                   ss_clock, ss_time, ss_freq, poll_elapsed>>
    /\ SsFrame

\* Lines 644-656.
SsSelectGpio ==
    /\ pc = "ss_gpio"
    /\ gpio' = ApplyWrites(gpio, GpioWrites(ss_clock))
    /\ hw_log' = hw_log \o GpioEvents(GpioWrites(ss_clock))
    /\ SsGoto(StepAfter("ss_gpio"))
    /\ UNCHANGED <<clock_source, time_source, ref_clk_en, reg_time_sel,
                   ss_clock, ss_time, ss_freq, poll_elapsed>>
    /\ SsFrame

\* Lines 657-661; the debug message divides the frequency, which fails on None.
SsRecordClock ==
    /\ pc = "ss_recclock"
    /\ clock_source' = ss_clock
    /\ hw_log' = Append(hw_log, EvRecClock(ss_clock))
    /\ IF get_ref_clock_freq(ss_clock, ext_clock_freq) = NoFreq
       THEN SsFail("TypeError")
       ELSE SsGoto(StepAfter("ss_recclock"))
    /\ UNCHANGED <<time_source, gpio, ref_clk_en, reg_time_sel,
                   ss_clock, ss_time, ss_freq, poll_elapsed>>
    /\ SsFrame

\* Line 664.
SsSettle ==
    /\ pc = "ss_settle"
    /\ hw_log' = Append(hw_log, EvSleep)
    /\ SsGoto(StepAfter("ss_settle"))
    /\ UNCHANGED <<clock_source, time_source, gpio, ref_clk_en, reg_time_sel,
                   ss_clock, ss_time, ss_freq, poll_elapsed>>
    /\ SsFrame

\* Line 665.
SsEnableRefClk ==
    /\ pc = "ss_refon"
    /\ ref_clk_en' = TRUE
    /\ hw_log' = Append(hw_log, EvRefClk(TRUE))
    /\ SsGoto(StepAfter("ss_refon"))
    /\ UNCHANGED <<clock_source, time_source, gpio, reg_time_sel,
                   ss_clock, ss_time, ss_freq, poll_elapsed>>
    /\ SsFrame

\* MboardRegsControl.set_time_source of n3xx_periphs: the timing-select bits of
\* the clock-control register afterwards.
RegsSetTimeSource(t) == t

\* Lines 667-669.
SsSetTime ==
    /\ pc = "ss_settime"
    /\ time_source' = ss_time
    /\ ss_freq' = get_ref_clock_freq(clock_source, ext_clock_freq)
    /\ reg_time_sel' = RegsSetTimeSource(ss_time)
    /\ hw_log' = hw_log \o << EvRecTime(ss_time),
                              EvRegTime(ss_time, get_ref_clock_freq(clock_source, ext_clock_freq)) >>
    /\ SsGoto(StepAfter("ss_settime"))
    /\ UNCHANGED <<clock_source, gpio, ref_clk_en, ss_clock, ss_time, poll_elapsed>>
    /\ SsFrame

\* Lines 670-685; the image type is in updateable_components only once
\* _update_fpga_type (line 348) has run.
SsCheckWhiteRabbit ==
    /\ pc = "ss_wr"
    /\ IF ss_time = "sfp0"
       THEN IF clock_source # "internal" THEN SsFail("RuntimeError") /\ UNCHANGED poll_elapsed
            ELSE IF fpga_type = "" THEN SsFail("KeyError") /\ UNCHANGED poll_elapsed
            ELSE IF fpga_type \notin sfp_time_source_images
            THEN SsFail("RuntimeError") /\ UNCHANGED poll_elapsed
            ELSE SsGoto("ss_poll") /\ poll_elapsed' = 0
       ELSE SsGoto(StepAfter("ss_wr")) /\ UNCHANGED poll_elapsed
    /\ UNCHANGED <<clock_source, time_source, gpio, ref_clk_en, reg_time_sel,
                   hw_log, ss_clock, ss_time, ss_freq>>
    /\ SsFrame

\* A poll that would never give up.
PollExpired_never(elapsed, timeout) == FALSE

\* poll_with_timeout of mpmutils: check, then sleep the interval, until the
\* timeout has elapsed.
PollExpired(elapsed, timeout) == elapsed >= timeout

\* Lines 686-700, one poll per step; the elapsed time is local to the poll.
SsPollLock ==
    /\ pc = "ss_poll"
    /\ IF PollExpired(poll_elapsed, WR_LOCK_TIMEOUT_MS)
       THEN SsFail("RuntimeError") /\ UNCHANGED hw_log /\ poll_elapsed' = 0
       ELSE \E locked \in BOOLEAN :
               IF locked
               THEN /\ hw_log' = Append(hw_log, EvWrLock)
                    /\ SsGoto(StepAfter("ss_wr"))
                    /\ poll_elapsed' = 0
               ELSE /\ poll_elapsed' = poll_elapsed + WR_LOCK_POLL_MS
                    /\ UNCHANGED <<pc, ss_i, ss_status, ss_failpc, hw_log>>
    /\ UNCHANGED <<clock_source, time_source, gpio, ref_clk_en, reg_time_sel,
                   ss_clock, ss_time, ss_freq>>
    /\ SsFrame

\* Lines 702-712, one daughterboard per step.
SsUpdateDboards ==
    /\ pc = "ss_update"
    /\ IF ss_i > Len(dboards)
       THEN SsGoto(StepAfter("ss_update")) /\ UNCHANGED hw_log
       ELSE \E ok \in BOOLEAN :
               IF ok
               THEN SsStay /\ hw_log' = Append(hw_log, EvUpdate(ss_i, ss_freq, ss_time, ss_clock))
               ELSE SsFail("BoardError") /\ UNCHANGED hw_log
    /\ UNCHANGED <<clock_source, time_source, gpio, ref_clk_en, reg_time_sel,
                   ss_clock, ss_time, ss_freq, poll_elapsed>>
    /\ SsFrame

\* set_sync_source returns (lines 630, 712) or its exception leaves it.
SsExit ==
    /\ pc = "ss_exit"
    /\ IF ss_status = "ok" THEN DoReturn("ok") ELSE DoRaise(ss_status)
    /\ UNCHANGED <<xportVars, bp_leds, mbVars, monVars, recVars, devVars, dboards, hwVars, hw_log, opLocals, ghostVars, ssLocals>>

-----------------------------------------------------------------------------
\* The dispatcher takes the next call: op names it, pre is the recorded state
\* it starts from.
Begin(name) ==
    /\ pc = "idle"
    /\ op' = name
    /\ pre' = Snapshot
    /\ last_failed' = {}

-----------------------------------------------------------------------------
\* The caller-facing clock/time API.

\* set_sync_source called by the dispatcher.
SetSyncSource ==
    \E a \in [clock_source : ArgClock, time_source : ArgTime] :
        /\ Begin("set_sync_source")
        /\ retry' = (last_failed = {a})
        /\ CallSetSyncSource(a, <<>>, <<>>, Snapshot)
        /\ UNCHANGED <<xportVars, bp_leds, mbVars, monVars, recVars, devVars, dboards, hwVars, result,
                       boot_args, init_args, init_result, sts_time, srcf_freq>>

\* Lines 577-583: the time source set_clock_source(c) asks for when t is recorded.
ScsTimeSource(c, t) ==
    IF <<c, t>> \notin valid_sync_sources
    THEN IF c = "internal" THEN "internal"
         ELSE IF c = "external" THEN "external"
         ELSE IF c = "gpsdo" THEN "gpsdo"
         ELSE t
    ELSE t

\* A repair that would pair sfp0 with the external clock.
StsClockSource_sfp0_external(c, t) ==
    IF <<c, t>> \notin valid_sync_sources
    THEN IF t = "sfp0" THEN "external"
         ELSE IF t = "internal" THEN "internal"
         ELSE IF t = "external" THEN "external"
         ELSE IF t = "gpsdo" THEN "gpsdo"
         ELSE c
    ELSE c

\* Lines 602-610: the clock source set_time_source(t) asks for when c is recorded.
StsClockSource(c, t) ==
    IF <<c, t>> \notin valid_sync_sources
    THEN IF t = "sfp0" THEN "internal"
         ELSE IF t = "internal" THEN "internal"
         ELSE IF t = "external" THEN "external"
         ELSE IF t = "gpsdo" THEN "gpsdo"
         ELSE c
    ELSE c

\* set_clock_source, lines 571-587.
SetClockSource ==
    \E c \in get_clock_sources \cup {"bogus"} :
        /\ Begin("set_clock_source")
        /\ retry' = FALSE
        /\ IF time_source = None
           THEN /\ DoRaise("AssertionError")
                /\ UNCHANGED <<hw_log, ssLocals>>
           ELSE CallSetSyncSource(
                    [clock_source |-> {c},
                     time_source |-> {ScsTimeSource(c, time_source)}], <<>>, <<>>, Snapshot)
                /\ UNCHANGED result
        /\ UNCHANGED <<xportVars, bp_leds, mbVars, monVars, recVars, devVars, dboards, hwVars,
                       boot_args, init_args, init_result, sts_time, srcf_freq>>

\* set_time_source called by the dispatcher.
SetTimeSource ==
    \E t \in get_time_sources \cup {"bogus"} :
        /\ Begin("set_time_source")
        /\ retry' = FALSE
        /\ pc' = "sts_entry"
        /\ sts_time' = t
        /\ UNCHANGED <<xportVars, bp_leds, mbVars, monVars, recVars, devVars, dboards, hwVars, ret, result, hw_log,
                       boot_args, init_args, init_result, srcf_freq, ssLocals>>

\* set_time_source, lines 597-614.
StsEntry ==
    /\ pc = "sts_entry"
    /\ IF clock_source = None
       THEN /\ DoRaise("AssertionError")
            /\ UNCHANGED <<hw_log, ssLocals>>
       ELSE CallSetSyncSource(
                [clock_source |-> {StsClockSource(clock_source, sts_time)},
                 time_source |-> {sts_time}], ret, hw_log, Snapshot)
            /\ UNCHANGED result
    /\ UNCHANGED <<xportVars, bp_leds, mbVars, monVars, recVars, devVars, dboards, hwVars, opLocals, ghostVars>>

supported_ext_freqs_with_other == {10, 20, 25, OtherFreq}

\* Line 720.
supported_ext_freqs == {10, 20, 25}

\* Line 732: 20 MHz is refused unless the time source is external.
FreqNeedsExternalTime(f, t) == (f = 20) /\ (t # "external")

\* Line 743: the new frequency is pushed through set_time_source.
ReapplyOnFreqChange(c) == c = "external"

\* set_ref_clock_freq, lines 714-744.
SetRefClockFreq ==
    \E f \in FreqRequests :
        /\ Begin("set_ref_clock_freq")
        /\ retry' = FALSE
        /\ srcf_freq' = f
        /\ IF f \notin supported_ext_freqs
           THEN DoRaise("RuntimeError") /\ UNCHANGED <<ext_clock_freq, sts_time>>
           ELSE IF ext_clock_freq = f
           THEN DoReturn("ok") /\ UNCHANGED <<ext_clock_freq, sts_time>>
           ELSE IF FreqNeedsExternalTime(f, time_source)
           THEN DoRaise("RuntimeError") /\ UNCHANGED <<ext_clock_freq, sts_time>>
           ELSE /\ ext_clock_freq' = f
                /\ IF ReapplyOnFreqChange(clock_source)
                   THEN /\ pc' = "sts_entry"
                        /\ sts_time' = time_source
                        /\ UNCHANGED <<ret, result>>
                   ELSE DoReturn("ok") /\ UNCHANGED sts_time
        /\ UNCHANGED <<xportVars, bp_leds, mbVars, monVars, clock_source, time_source, devVars, dboards, hwVars, hw_log,
                       boot_args, init_args, init_result, ssLocals>>

-----------------------------------------------------------------------------
\* Session init and deinit.

\* Values of clock_source and time_source a session passes to init.
InitArgClock == {{}, {"internal"}, {"external"}}
InitArgTime == {{}, {"external"}, {"sfp0"}}

\* init called by the dispatcher.
InitCall ==
    \E a \in [clock_source : InitArgClock, time_source : InitArgTime, pps_export : {{}}] :
        /\ Begin("init")
        /\ retry' = FALSE
        /\ pc' = "init_entry"
        /\ init_args' = [clock_source |-> a.clock_source, time_source |-> a.time_source,
                         pps_export |-> a.pps_export,
                         given |-> <<a.clock_source, a.time_source>>]
        /\ UNCHANGED <<xportVars, bp_leds, mbVars, monVars, recVars, devVars, dboards, hwVars, ret, result, hw_log,
                       boot_args, init_result, sts_time, srcf_freq, ssLocals>>

InitArgOrRecorded_default(entry, recorded, default) == DictGet(entry, default)

\* Lines 422-423: args.get(key, the recorded value).
InitArgOrRecorded(entry, recorded, default) == DictGet(entry, recorded)

PpsOutDuringInit_enabled == TRUE

\* Line 415: enable_pps_out(False).
PpsOutDuringInit == FALSE

\* init, lines 409-424.
InitEntry ==
    /\ pc = "init_entry"
    /\ IF ~device_initialized
       THEN /\ DoReturn("false")
            /\ UNCHANGED <<pps_out, hw_log, init_args, ssLocals>>
       ELSE LET c == InitArgOrRecorded(init_args.clock_source, clock_source,
                                       N3XX_DEFAULT_CLOCK_SOURCE)
                t == InitArgOrRecorded(init_args.time_source, time_source,
                                       N3XX_DEFAULT_TIME_SOURCE)
            IN /\ pps_out' = PpsOutDuringInit
               /\ init_args' = [init_args EXCEPT !.clock_source = {c}, !.time_source = {t}]
               /\ CallSetSyncSource([clock_source |-> {c}, time_source |-> {t}],
                                    <<"init_dbinit">> \o ret,
                                    Append(hw_log, EvPpsOut(PpsOutDuringInit)),
                                    [Snapshot EXCEPT !.pps_out = PpsOutDuringInit])
               /\ UNCHANGED result
    /\ UNCHANGED <<xportVars, bp_leds, mbVars, monVars, recVars, devVars, dboards, gpio, ref_clk_en, reg_time_sel,
                   boot_args, init_result, sts_time, srcf_freq, pre, ghostVars>>

\* Line 437: the base class runs init on every daughterboard; it raises, or
\* returns whether the boards came up, which line 445 hands on unexamined.
InitDboards ==
    /\ pc = "init_dbinit"
    /\ hw_log' = Append(hw_log, EvDbInit)
    /\ \E r \in {"true", "false", "raise"} :
          IF r = "raise"
          THEN DoRaise("BoardError") /\ UNCHANGED init_result
          ELSE /\ pc' = "init_ppson"
               /\ init_result' = r
               /\ UNCHANGED <<ret, result>>
    /\ UNCHANGED <<xportVars, bp_leds, mbVars, monVars, recVars, devVars, dboards, hwVars, boot_args, init_args,
                   sts_time, srcf_freq, pre, ghostVars, ssLocals>>

\* Lines 439-442; pps_export is read from the arguments here.
InitPpsOut ==
    /\ pc = "init_ppson"
    /\ \E e \in ArgBool :
          /\ init_args' = [init_args EXCEPT !.pps_export = e]
          /\ pps_out' = DictGet(e, N3XX_DEFAULT_ENABLE_PPS_EXPORT)
          /\ hw_log' = Append(hw_log, EvPpsOut(DictGet(e, N3XX_DEFAULT_ENABLE_PPS_EXPORT)))
    /\ pc' = "init_xport"
    /\ UNCHANGED <<xportVars, bp_leds, mbVars, monVars, recVars, devVars, dboards, gpio, ref_clk_en, reg_time_sel, ret, result,
                   boot_args, init_result, sts_time, srcf_freq, pre, ghostVars, ssLocals>>

\* An init that would start a monitor thread of its own.
InitXport_respawns ==
    /\ pc = "init_xport"
    /\ hw_log' = Append(hw_log, EvXportInit)
    /\ DoReturn(init_result)
    /\ spawned' = IF spawned < 2 THEN spawned + 1 ELSE spawned
    /\ mon_pc' = "test"
    /\ UNCHANGED <<xportVars, bp_leds, mbVars, tear_down, mon_wait, mon_cycles, mon_waited, join_left,
                   recVars, devVars, dboards, hwVars, opLocals, ghostVars, ssLocals>>

\* Lines 443-445.
InitXport ==
    /\ pc = "init_xport"
    /\ hw_log' = Append(hw_log, EvXportInit)
    /\ DoReturn(init_result)
    /\ UNCHANGED <<xportVars, bp_leds, mbVars, monVars, recVars, devVars, dboards, hwVars, opLocals, ghostVars, ssLocals>>

\* A deinit that would also ask the monitor thread to end.
Deinit_sets_flag ==
    /\ Begin("deinit")
    /\ retry' = FALSE
    /\ pc' = "done"
    /\ result' = "ok"
    /\ hw_log' = IF device_initialized THEN <<EvDbDeinit, EvXportDeinit>> ELSE <<>>
    /\ available_endpoints' = IF device_initialized THEN FullPool ELSE available_endpoints
    /\ committed' = IF device_initialized THEN {} ELSE committed
    /\ xp' = [NoXp EXCEPT !.pool = available_endpoints]
    /\ tear_down' = device_initialized
    /\ UNCHANGED <<rpc_connection, xp_prev, bp_leds, mbVars,
                   mon_pc, mon_wait, mon_cycles, mon_waited, spawned, join_left>>
    /\ UNCHANGED <<recVars, devVars, dboards, hwVars, ret,
                   boot_args, init_args, init_result, sts_time, srcf_freq, ssLocals>>

\* deinit, lines 447-459.
Deinit ==
    /\ Begin("deinit")
    /\ retry' = FALSE
    /\ pc' = "done"
    /\ result' = "ok"
    /\ hw_log' = IF device_initialized THEN <<EvDbDeinit, EvXportDeinit>> ELSE <<>>
    /\ available_endpoints' = IF device_initialized THEN FullPool ELSE available_endpoints
    /\ committed' = IF device_initialized THEN {} ELSE committed
    /\ xp' = [NoXp EXCEPT !.pool = available_endpoints]
    /\ UNCHANGED <<rpc_connection, xp_prev, bp_leds, mbVars, monVars>>
    /\ UNCHANGED <<recVars, devVars, dboards, hwVars, ret,
                   boot_args, init_args, init_result, sts_time, srcf_freq, ssLocals>>

\* The call has returned or raised to the dispatcher, which is idle again.
Complete ==
    /\ pc = "done"
    /\ pc' = "idle"
    /\ last_failed' = IF /\ op = "set_sync_source"
                         /\ ss_status \notin {"ok", "AssertionError"}
                         /\ ss_failpc \in {"ss_wr", "ss_poll", "ss_update"}
                      THEN {ss_args} ELSE {}
    /\ op' = ""
    /\ retry' = FALSE
    /\ result' = ""
    /\ hw_log' = <<>>
    /\ ret' = <<>>
    /\ boot_args' = NoBootArgs
    /\ init_args' = NoInitArgs
    /\ init_result' = ""
    /\ sts_time' = None
    /\ srcf_freq' = NoFreq
    /\ pre' = NoPre
    /\ ss_args' = NoArgs
    /\ ss_clock' = None
    /\ ss_time' = None
    /\ ss_freq' = NoFreq
    /\ ss_i' = 0
    /\ ss_base' = 0
    /\ ss_pre' = NoPre
    /\ ss_status' = ""
    /\ ss_failpc' = ""
    /\ poll_elapsed' = 0
    /\ xp' = NoXp
    /\ xp_prev' = IF op = "request_xport" THEN [xp EXCEPT !.pool = <<>>] ELSE NoXp
    /\ UNCHANGED <<recVars, devVars, dboards, hwVars, monVars,
                   available_endpoints, rpc_connection, committed, bp_leds, mbVars>>

-----------------------------------------------------------------------------
\* Device boot: n3xx.__init__ and _init_peripherals.  The arguments are drawn
\* where the program first reads them.

BootArgClock == {{}, {"external"}, {"gpsdo"}}
BootArgTime == {{}, {"external"}, {"gpsdo"}, {"sfp0"}}
BootArgFreq == {{}, {20}, {25}, {OtherFreq}}

BootFrame ==
    UNCHANGED <<dboards, init_result, sts_time, srcf_freq, pre, retry, last_failed,
                xportVars, bp_leds, mbVars, monVars>>

\* Lines 213-227: the base class decides whether the device is usable.
Boot ==
    /\ pc = "new"
    /\ op' = "boot"
    /\ \E base_ok \in BOOLEAN :
          /\ device_initialized' = base_ok
          /\ IF base_ok
             THEN pc' = "bp_rails" /\ ret' = <<"boot_init">> /\ UNCHANGED result
             ELSE pc' = "done" /\ result' = "ok" /\ UNCHANGED ret
    /\ UNCHANGED <<recVars, regs_up, fpga_type, xport_mgrs_up, monitor_thread, hwVars,
                   hw_log, boot_args, init_args, ssLocals>>
    /\ BootFrame

\* Lines 318-341: port expander, LEDs and the power and clock rails.
BootRails ==
    /\ pc = "bp_rails"
    /\ \E ok \in BOOLEAN :
          IF ok
          THEN /\ pc' = "bp_regs"
               /\ hw_log' = hw_log \o << EvRail("PWREN-CLK-MGT156MHz", 1),
                                         EvRail("NETCLK-CE", 1),
                                         EvRail("PWREN-CLK-WB-20MHz", 1),
                                         EvRail("PWREN-GPS", 1),
                                         EvRail("FPGA-GPIO-EN", 1) >>
               /\ bp_leds' = NewLeds
               /\ UNCHANGED <<ret, result>>
          ELSE /\ DoRaise("AssertionError")
               /\ \E made \in BOOLEAN : bp_leds' = IF made THEN NewLeds ELSE NoLeds
               /\ UNCHANGED hw_log
    /\ UNCHANGED <<recVars, devVars, hwVars, op, boot_args, init_args, ssLocals>>
    /\ UNCHANGED <<dboards, init_result, sts_time, srcf_freq, pre, retry, last_failed,
                   xportVars, monVars, mbVars>>

\* Compat numbers the register block may report, as <<major, minor>>.
CompatNumbers == {4, 5, 6} \X {2, 3, 4}

\* The outcome of an assert_compat_number that would let an older minor pass
\* with a warning whatever its caller asks for.
assert_compat_number_lenient(expected, actual, fail_on_old_minor) ==
    IF actual[1] # expected[1] THEN "error"
    ELSE IF actual[2] # expected[2] THEN "warning"
    ELSE "ok"

\* assert_compat_number of mpmutils: a different major is an error, a newer
\* minor a warning, an older minor an error when the caller asks for it and a
\* warning otherwise.
assert_compat_number(expected, actual, fail_on_old_minor) ==
    IF actual[1] # expected[1] THEN "error"
    ELSE IF actual[2] < expected[2]
    THEN IF fail_on_old_minor THEN "error" ELSE "warning"
    ELSE IF actual[2] > expected[2] THEN "warning"
    ELSE "ok"

\* The outcome of the compat check with its number.
EvCompat(outcome, actual) == Ev("compat", outcome, "", actual[1], actual[2])

\* _check_fpga_compat, lines 238-250: fail_on_old_minor is True.
CheckFpgaCompat(actual) == assert_compat_number(N3XX_FPGA_COMPAT, actual, TRUE)

\* Lines 343-349: the register block, the compat check and the image type.
BootRegs ==
    /\ pc = "bp_regs"
    /\ regs_up' = TRUE
    /\ \E actual \in CompatNumbers, ft \in FpgaTypes :
          /\ hw_log' = Append(hw_log, EvCompat(CheckFpgaCompat(actual), actual))
          /\ IF CheckFpgaCompat(actual) # "error"
             THEN /\ fpga_type' = ft
                  /\ pc' = "bp_refclk"
                  /\ UNCHANGED <<ret, result>>
             ELSE DoRaise("RuntimeError") /\ UNCHANGED fpga_type
    /\ UNCHANGED <<recVars, device_initialized, xport_mgrs_up, monitor_thread, hwVars,
                   op, boot_args, init_args, ssLocals>>
    /\ BootFrame

\* Lines 351-353 and _init_ref_clock_and_time, lines 252-273.
BootRefClock ==
    /\ pc = "bp_refclk"
    /\ \E f \in BootArgFreq, c \in BootArgClock, t \in BootArgTime :
          /\ boot_args' = [clock_source |-> c, time_source |-> t, ext_clock_freq |-> f]
          /\ ext_clock_freq' = DictGet(f, N3XX_DEFAULT_EXT_CLOCK_FREQ)
          /\ IF Len(dboards) = 0
             THEN /\ clock_source' = N3XX_DEFAULT_CLOCK_SOURCE
                  /\ time_source' = N3XX_DEFAULT_TIME_SOURCE
                  /\ pc' = "bp_meas"
                  /\ hw_log' = Append(hw_log, EvRail("PWREN-CLK-MAINREF", 1))
                  /\ UNCHANGED <<ret, ssLocals>>
             ELSE /\ CallSetSyncSource(
                        [clock_source |-> {DictGet(c, N3XX_DEFAULT_CLOCK_SOURCE)},
                         time_source |-> {DictGet(t, N3XX_DEFAULT_TIME_SOURCE)}],
                        <<"bp_meas">> \o ret,
                        Append(hw_log, EvRail("PWREN-CLK-MAINREF", 1)),
                        [Snapshot EXCEPT !.freq = DictGet(f, N3XX_DEFAULT_EXT_CLOCK_FREQ)])
                  /\ UNCHANGED <<clock_source, time_source>>
    /\ UNCHANGED <<devVars, hwVars, op, result, init_args>>
    /\ BootFrame

\* _init_meas_clock, lines 275-283.
BootMeasClock ==
    /\ pc = "bp_meas"
    /\ \E locked \in BOOLEAN :
          IF locked
          THEN /\ pc' = "bp_optional"
               /\ hw_log' = Append(hw_log, Ev("meas_clk", "", "", 0, 1))
               /\ UNCHANGED <<ret, result>>
          ELSE DoRaise("RuntimeError") /\ UNCHANGED hw_log
    /\ UNCHANGED <<recVars, devVars, hwVars, op, boot_args, init_args, ssLocals>>
    /\ BootFrame

\* Lines 356-368: GPS sensors and the QSFP board, which may be absent.
BootOptional ==
    /\ pc = "bp_optional"
    /\ \E qsfp \in BOOLEAN :
          hw_log' = Append(hw_log, Ev("qsfp", "", "", 0, IF qsfp THEN 1 ELSE 0))
    /\ pc' = "bp_xport"
    /\ UNCHANGED <<recVars, devVars, hwVars, op, ret, result, boot_args, init_args, ssLocals>>
    /\ BootFrame

\* Lines 370-373: the two backends are constructed, which may fail, and only
\* then assigned.
BootXport ==
    /\ pc = "bp_xport"
    /\ \E ok \in BOOLEAN :
          IF ok
          THEN /\ xport_mgrs_up' = TRUE
               /\ hw_log' = Append(hw_log, Ev("xport_mgrs", "", "", 0, 1))
               /\ pc' = "bp_monitor"
               /\ UNCHANGED <<ret, result>>
          ELSE DoRaise("RuntimeError") /\ UNCHANGED <<xport_mgrs_up, hw_log>>
    /\ UNCHANGED <<recVars, device_initialized, regs_up, fpga_type, monitor_thread, hwVars,
                   op, boot_args, init_args, ssLocals>>
    /\ BootFrame

\* Lines 376-383: the monitor thread is started and _init_peripherals returns.
BootMonitor ==
    /\ pc = "bp_monitor"
    /\ monitor_thread' = "alive"
    /\ mon_pc' = "test"
    /\ spawned' = spawned + 1
    /\ hw_log' = Append(hw_log, Ev("monitor", "", "", 0, 1))
    /\ DoReturn("ok")
    /\ UNCHANGED <<recVars, device_initialized, regs_up, fpga_type, xport_mgrs_up, hwVars,
                   op, boot_args, init_args, ssLocals>>
    /\ UNCHANGED <<dboards, init_result, sts_time, srcf_freq, pre, retry, last_failed,
                   xportVars, bp_leds, mbVars, tear_down, mon_wait, mon_cycles, mon_waited, join_left>>

\* Lines 232-234: init(args) unless skip_boot_init is set.
BootInit ==
    /\ pc = "boot_init"
    /\ \E skip \in BOOLEAN :
          IF skip
          THEN pc' = "boot_end" /\ UNCHANGED <<ret, init_args>>
          ELSE /\ pc' = "init_entry"
               /\ ret' = <<"boot_end">> \o ret
               /\ init_args' = [clock_source |-> boot_args.clock_source,
                                time_source |-> boot_args.time_source,
                                pps_export |-> {},
                                given |-> <<boot_args.clock_source,
                                            boot_args.time_source>>]
    /\ UNCHANGED <<recVars, devVars, hwVars, op, result, hw_log, boot_args, ssLocals>>
    /\ BootFrame

\* A handler of the failure of _init_peripherals that would leave the device
\* marked as initialized.
BootExcept_keeps_initialized ==
    /\ pc = "boot_except"
    /\ pc' = "boot_init"
    /\ UNCHANGED <<recVars, devVars, hwVars,
                   op, ret, result, hw_log, boot_args, init_args, ssLocals>>
    /\ BootFrame

\* Lines 228-231: _init_peripherals has failed.
BootExcept ==
    /\ pc = "boot_except"
    /\ device_initialized' = FALSE
    /\ pc' = "boot_init"
    /\ UNCHANGED <<recVars, regs_up, fpga_type, xport_mgrs_up, monitor_thread, hwVars,
                   op, ret, result, hw_log, boot_args, init_args, ssLocals>>
    /\ BootFrame

\* __init__ returns; the constructor never raises.
BootEnd ==
    /\ pc = "boot_end"
    /\ pc' = "done"
    /\ result' = "ok"
    /\ UNCHANGED <<recVars, devVars, hwVars, op, ret, hw_log, boot_args, init_args, ssLocals>>
    /\ BootFrame

-----------------------------------------------------------------------------
\* The transport API: request_xport and commit_xport, lines 484-538.

\* Line 501: the source address goes above the 16 bits of the destination.
SidSrcShift == 65536

\* Line 501, src_address << 16 | dst_address, for a destination below 2^16.
MakeSid(src, dst) == src * SidSrcShift + dst

\* SID.src_ep of mpmtypes: the low byte of the upper half of the SID.
SidSrcEp(sid) == (sid \div SidSrcShift) % 256

\* The endpoint a backend's request_xport hands back for a SID: it carries
\* the SID, of which only the source address byte is looked at here.
BackendEndpoint(sid) == sid

\* Values of device_info['rpc_connection']: the two the dispatcher sets for
\* a claimed device, and one that is neither.
ConnectionModes == {"remote", "local", "none"}

ConnectionModeOk_any(mode) == TRUE

\* Lines 508 and 530: the assertion on the connection mode.
ConnectionModeOk(mode) == mode \in {"remote", "local"}

BackendOf_udp_only(mode) == "udp"

\* Lines 509-518 and 535-538: the backend the connection mode selects; with
\* any other mode neither branch is taken.
BackendOf(mode) ==
    IF mode = "remote" THEN "udp"
    ELSE IF mode = "local" THEN "liberio"
    ELSE ""

EvXportRequest(backend, sid) == Ev("xport_request", backend, "", 0, sid)
EvXportCommit(backend, sid) == Ev("xport_commit", backend, "", 0, sid)

\* Line 495: src_address in self._available_endpoints.
PoolHas(pool, a) == \E i \in DOMAIN pool : pool[i] = a

PoolRemove_keep(pool, a) == pool

\* Line 532, list.remove: the first occurrence goes, the order stays.
PoolRemove(pool, a) ==
    LET i == CHOOSE k \in DOMAIN pool :
                 pool[k] = a /\ \A j \in 1..(k-1) : pool[j] # a
    IN SubSeq(pool, 1, i - 1) \o SubSeq(pool, i + 1, Len(pool))

PoolAfterFailedCommit_restored(pool, a) == pool

\* Lines 532-538: the removal comes before the call of the backend, and no
\* except clause puts the address back when that call raises.
PoolAfterFailedCommit(pool, a) == PoolRemove(pool, a)

PoolAfterRequest_reserve(pool, src) ==
    IF PoolHas(pool, src) THEN PoolRemove(pool, src) ELSE pool

\* Lines 494-518 read the pool and assign nothing to it.
PoolAfterRequest(pool, src) == pool

PickSource_last_free(pool, suggested) ==
    IF PoolHas(pool, suggested) THEN suggested
    ELSE IF Len(pool) = 0 THEN -1
    ELSE pool[Len(pool)]

PickSource_never_depleted(pool, suggested) ==
    IF PoolHas(pool, suggested) THEN suggested
    ELSE IF Len(pool) = 0 THEN 0
    ELSE pool[1]

\* Lines 494-500: the source address of the request, -1 when the pool is
\* depleted.
PickSource(pool, suggested) ==
    IF PoolHas(pool, suggested) THEN suggested
    ELSE IF Len(pool) = 0 THEN -1
    ELSE pool[1]

\* Addresses a caller suggests or commits: those of the pool and one that is
\* never in it; destinations fit in 16 bits.
SuggestedAddresses == 0..PoolSize
DstAddresses == {16, 65535}
CommitSids == {MakeSid(a, 16) : a \in 0..PoolSize} \cup {MakeSid(256 + 1, 16)}

\* What no transport call touches.
XportFrame ==
    UNCHANGED <<monVars, recVars, devVars, dboards, hwVars, ret, rpc_connection, xp_prev,
                bp_leds, mbVars,
                boot_args, init_args, init_result, sts_time, srcf_freq, ssLocals>>

\* request_xport, lines 484-518.
RequestXport ==
    \E sug \in SuggestedAddresses, d \in DstAddresses :
        /\ Begin("request_xport")
        /\ retry' = FALSE
        /\ pc' = "done"
        /\ LET src == PickSource(available_endpoints, sug)
               call == [NoXp EXCEPT !.suggested = sug, !.dst = d,
                                    !.pool = available_endpoints]
           IN IF src = -1
              THEN /\ result' = "RuntimeError"
                   /\ xp' = call
                   /\ hw_log' = <<>>
              ELSE IF ~ConnectionModeOk(rpc_connection)
              THEN /\ result' = "AssertionError"
                   /\ xp' = [call EXCEPT !.sid = MakeSid(src, d)]
                   /\ hw_log' = <<>>
              ELSE IF BackendOf(rpc_connection) = ""
              THEN /\ result' = "ok"
                   /\ xp' = [call EXCEPT !.sid = MakeSid(src, d)]
                   /\ hw_log' = <<>>
              ELSE IF ~xport_mgrs_up
              THEN /\ result' = "AttributeError"
                   /\ xp' = [call EXCEPT !.sid = MakeSid(src, d)]
                   /\ hw_log' = <<>>
              ELSE /\ result' = "ok"
                   /\ xp' = [call EXCEPT !.sid = MakeSid(src, d),
                                         !.ret = BackendEndpoint(MakeSid(src, d))]
                   /\ hw_log' = << EvXportRequest(BackendOf(rpc_connection),
                                                  MakeSid(src, d)) >>
        /\ available_endpoints' =
              PoolAfterRequest(available_endpoints, PickSource(available_endpoints, sug))
        /\ UNCHANGED <<committed>>
        /\ XportFrame

\* commit_xport, lines 520-538.
CommitXport ==
    \E sid \in CommitSids :
        /\ Begin("commit_xport")
        /\ retry' = FALSE
        /\ pc' = "done"
        /\ xp' = [NoXp EXCEPT !.sid = sid, !.pool = available_endpoints]
        /\ IF ~ConnectionModeOk(rpc_connection)
           THEN /\ result' = "AssertionError"
                /\ hw_log' = <<>>
                /\ UNCHANGED <<available_endpoints, committed>>
           ELSE IF ~PoolHas(available_endpoints, SidSrcEp(sid))
           THEN /\ result' = "ValueError"
                /\ hw_log' = <<>>
                /\ UNCHANGED <<available_endpoints, committed>>
           ELSE IF BackendOf(rpc_connection) = ""
           THEN /\ available_endpoints' = PoolRemove(available_endpoints, SidSrcEp(sid))
                /\ result' = "ok"
                /\ hw_log' = <<>>
                /\ UNCHANGED committed
           ELSE IF ~xport_mgrs_up
           THEN /\ available_endpoints' =
                      PoolAfterFailedCommit(available_endpoints, SidSrcEp(sid))
                /\ result' = "AttributeError"
                /\ hw_log' = <<>>
                /\ UNCHANGED committed
           ELSE \E backend_ok \in BOOLEAN :
                   IF backend_ok
                   THEN /\ available_endpoints' =
                              PoolRemove(available_endpoints, SidSrcEp(sid))
                        /\ result' = "ok"
                        /\ hw_log' = << EvXportCommit(BackendOf(rpc_connection), sid) >>
                        /\ committed' = committed \cup {SidSrcEp(sid)}
                   ELSE /\ available_endpoints' =
                              PoolAfterFailedCommit(available_endpoints, SidSrcEp(sid))
                        /\ result' = "RuntimeError"
                        /\ hw_log' = << EvXportCommit(BackendOf(rpc_connection), sid) >>
                        /\ UNCHANGED committed
        /\ XportFrame

\* The device after its boot, between two calls: either brought up with the
\* default sources and no daughterboard, or with _init_peripherals failed at
\* its first step (lines 228-231), which leaves no transport manager.
XportInitWith(modes) ==
    /\ \E booted \in BOOLEAN :
          /\ device_initialized = booted
          /\ regs_up = booted
          /\ xport_mgrs_up = booted
          /\ monitor_thread = IF booted THEN "alive" ELSE None
          /\ fpga_type = IF booted THEN "HG" ELSE ""
          /\ clock_source = IF booted THEN N3XX_DEFAULT_CLOCK_SOURCE ELSE None
          /\ time_source = IF booted THEN N3XX_DEFAULT_TIME_SOURCE ELSE None
          /\ ext_clock_freq = IF booted THEN N3XX_DEFAULT_EXT_CLOCK_FREQ ELSE NoFreq
          /\ pps_out = booted
          /\ mon_pc = IF booted THEN "test" ELSE "none"
          /\ spawned = IF booted THEN 1 ELSE 0
          /\ bp_leds = IF booted THEN NewLeds ELSE NoLeds
    /\ tear_down = FALSE
    /\ mon_wait = 0
    /\ mon_cycles = 0
    /\ mon_waited = 0
    /\ join_left = 0
    /\ dboards = <<>>
    /\ gpio = [l \in GpioLines |-> 0]
    /\ ref_clk_en = FALSE
    /\ reg_time_sel = None
    /\ pc = "idle"
    /\ ret = <<>>
    /\ op = ""
    /\ result = ""
    /\ hw_log = <<>>
    /\ retry = FALSE
    /\ last_failed = {}
    /\ boot_args = NoBootArgs
    /\ init_args = NoInitArgs
    /\ init_result = ""
    /\ sts_time = None
    /\ srcf_freq = NoFreq
    /\ pre = NoPre
    /\ ss_args = NoArgs
    /\ ss_clock = None
    /\ ss_time = None
    /\ ss_freq = NoFreq
    /\ ss_i = 0
    /\ ss_base = 0
    /\ ss_pre = NoPre
    /\ ss_status = ""
    /\ ss_failpc = ""
    /\ poll_elapsed = 0
    /\ available_endpoints = FullPool
    /\ rpc_connection \in modes
    /\ xp = NoXp
    /\ committed = {}
    /\ xp_prev = NoXp
    /\ RegsQuiet

\* A session of a claimed device: the dispatcher has set the connection mode.
XportInit == XportInitWith({"remote", "local"})

\* A session whose connection mode may be none of the two.
XportModeInit == XportInitWith(ConnectionModes)

XportNext == RequestXport \/ CommitXport \/ Deinit \/ Complete

\* The transport calls of a session, the sources left alone.
SpecXport == XportInit /\ [][XportNext]_vars

\* The same calls, whatever the connection mode.
SpecXportMode == XportModeInit /\ [][XportNext]_vars

-----------------------------------------------------------------------------
-----------------------------------------------------------------------------
\* The status monitor thread, _monitor_status (lines 285-307), and tear_down
\* (lines 461-479).  Time passes in ticks; a step of a thread takes none.

EvFlag == Ev("tear_down_flag", "", "", 0, 1)
EvJoin(waited) == Ev("join", "", "", 0, waited)
EvLeak == Ev("monitor_leak", "", "", 0, 0)
EvOverlays == Ev("overlays", "", "", 0, 0)

JoinTimeoutTicks == JoinIntervals * MonitorIntervalTicks

\* What the monitor thread does not touch; it only reads the flag.
MonFrame ==
    UNCHANGED <<recVars, devVars, dboards, hwVars, pc, ret, op, result, hw_log,
                retry, last_failed, opLocals, ssLocals, xportVars,
                tear_down, spawned, join_left>>

\* Line 296: the loop condition.
MonTest ==
    /\ mon_pc = "test"
    /\ mon_pc' = IF tear_down THEN "exited" ELSE "sample"
    /\ UNCHANGED <<mon_wait, mon_cycles, mon_waited, bp_leds, mbVars>>
    /\ MonFrame

MonitorLeds_with_link == {"GPS", "REF", "LINK"}

\* Lines 298 and 300: the indicators the monitor thread sets.
MonitorLeds == {"GPS", "REF"}

\* Lines 1029 and 1038: the indicator claim and unclaim set.
ClaimLed == "LINK"

\* BackpanelGPIO.set(led, value) called by thread who, as the bank records it.
LedsSet(leds, who, which) ==
    [leds EXCEPT !.set = @ \cup {<<who, l>> : l \in which}]

\* Lines 297-300: one sampling cycle, the two status inputs to the two LEDs.
MonSample ==
    /\ mon_pc = "sample"
    /\ mon_pc' = "enter"
    /\ mon_cycles' = IF tear_down /\ mon_cycles < MaxCyclesCounted
                     THEN mon_cycles + 1 ELSE mon_cycles
    /\ bp_leds' = LedsSet(bp_leds, "monitor", MonitorLeds)
    /\ UNCHANGED <<mon_wait, mon_waited, mbVars>>
    /\ MonFrame

\* A wait_for that would wait without looking at the flag first.
WaitForReturnsAtOnce_never(flag) == FALSE

\* Condition.wait_for evaluates the predicate before it waits (line 302).
WaitForReturnsAtOnce(flag) == flag

\* A wake-up that would not look at the flag again.
WaitForResult_timeout_only(flag) == FALSE

\* Condition.wait_for returns the predicate as evaluated after the wait;
\* nothing notifies the condition, which is local to the thread (line 294).
WaitForResult(flag) == flag

\* Line 302: wait_for is entered.
MonEnterWait ==
    /\ mon_pc = "enter"
    /\ IF WaitForReturnsAtOnce(tear_down)
       THEN mon_pc' = "exited" /\ UNCHANGED mon_wait
       ELSE mon_pc' = "wait" /\ mon_wait' = MonitorIntervalTicks
    /\ UNCHANGED <<mon_cycles, mon_waited, bp_leds, mbVars>>
    /\ MonFrame

\* Lines 302-305: the interval has elapsed; break when the flag is set.
MonWake ==
    /\ mon_pc = "wait"
    /\ mon_wait = 0
    /\ mon_pc' = IF WaitForResult(tear_down) THEN "exited" ELSE "test"
    /\ UNCHANGED <<mon_wait, mon_cycles, mon_waited, bp_leds, mbVars>>
    /\ MonFrame

MonStep == MonTest \/ MonSample \/ MonEnterWait \/ MonWake

\* One tick of time: the wait of the monitor thread and the join of tear_down
\* come one tick closer to their timeouts.
Tick ==
    /\ (mon_pc = "wait" /\ mon_wait > 0) \/ (pc = "td_join" /\ join_left > 0)
    /\ mon_wait' = IF mon_pc = "wait" /\ mon_wait > 0 THEN mon_wait - 1 ELSE mon_wait
    /\ mon_waited' = IF tear_down /\ mon_pc = "wait" /\ mon_wait > 0
                         /\ mon_waited < 2 * MonitorIntervalTicks
                     THEN mon_waited + 1 ELSE mon_waited
    /\ join_left' = IF pc = "td_join" /\ join_left > 0 THEN join_left - 1 ELSE join_left
    /\ UNCHANGED <<recVars, devVars, dboards, hwVars, pc, ret, op, result, hw_log,
                   retry, last_failed, opLocals, ssLocals, xportVars, bp_leds, mbVars,
                   tear_down, mon_pc, mon_cycles, spawned>>

\* What tear_down does not touch.
TdFrame ==
    UNCHANGED <<recVars, devVars, dboards, hwVars, boot_args, init_args, init_result,
                sts_time, srcf_freq, ssLocals, xportVars, bp_leds, mbVars,
                mon_pc, mon_wait, spawned>>

\* Lines 467-469: the flag is set, then the join is begun on an initialized
\* device.
TearDown ==
    /\ Begin("tear_down")
    /\ retry' = FALSE
    /\ tear_down' = TRUE
    /\ mon_cycles' = IF tear_down THEN mon_cycles ELSE 0
    /\ mon_waited' = IF tear_down THEN mon_waited ELSE 0
    /\ hw_log' = <<EvFlag>>
    /\ pc' = IF device_initialized THEN "td_join" ELSE "td_overlays"
    /\ join_left' = IF device_initialized THEN JoinTimeoutTicks ELSE 0
    /\ UNCHANGED <<ret, result>>
    /\ TdFrame

\* A join without a timeout.
JoinReturns_no_timeout(ended, left) == ended

\* Thread.join(timeout) returns when the thread has ended or the timeout is
\* over.
JoinReturns(ended, left) == ended \/ left = 0

\* Line 470.
TdJoin ==
    /\ pc = "td_join"
    /\ JoinReturns(mon_pc = "exited", join_left)
    /\ hw_log' = Append(hw_log, EvJoin(JoinTimeoutTicks - join_left))
    /\ join_left' = 0
    /\ pc' = "td_alive"
    /\ UNCHANGED <<ret, result, pre, ghostVars, tear_down, mon_cycles, mon_waited>>
    /\ TdFrame

\* Lines 471-473: a thread that is still alive is reported, nothing more.
TdCheckAlive ==
    /\ pc = "td_alive"
    /\ hw_log' = IF mon_pc # "exited" THEN Append(hw_log, EvLeak) ELSE hw_log
    /\ pc' = "td_overlays"
    /\ UNCHANGED <<ret, result, pre, ghostVars, monVars>>
    /\ TdFrame

\* Lines 474-479: the device tree overlays are removed.
TdOverlays ==
    /\ pc = "td_overlays"
    /\ hw_log' = Append(hw_log, EvOverlays)
    /\ DoReturn("ok")
    /\ UNCHANGED <<pre, ghostVars, monVars>>
    /\ TdFrame

\* A device without daughterboards, its source-select lines low at power-on.
MonInit ==
    /\ Init
    /\ dboards = <<>>
    /\ gpio = [l \in GpioLines |-> 0]

\* The calls the dispatcher may issue in the life of that device: its
\* sessions' init and deinit, and tear_down.
MonCalls == InitCall \/ Deinit \/ TearDown

\* The steps of the foreground thread inside the boot and inside a call.
MonRunning ==
    \/ Boot \/ BootRails \/ BootRegs \/ BootRefClock \/ BootMeasClock
    \/ BootOptional \/ BootXport \/ BootMonitor \/ BootExcept \/ BootInit \/ BootEnd
    \/ SsValidate \/ SsSafeState \/ SsDisableRefClk \/ SsSelectGpio \/ SsRecordClock
    \/ SsSettle \/ SsEnableRefClk \/ SsSetTime \/ SsCheckWhiteRabbit \/ SsPollLock
    \/ SsUpdateDboards \/ SsExit
    \/ InitEntry \/ InitDboards \/ InitPpsOut \/ InitXport
    \/ TdJoin \/ TdCheckAlive \/ TdOverlays
    \/ Complete

MonNext == MonCalls \/ MonRunning \/ MonStep \/ Tick

\* The device with its monitor thread running beside the foreground thread.
\* Both threads are scheduled again and again and time does not stop; the
\* dispatcher need not issue another call.
SpecMonitor ==
    /\ MonInit
    /\ [][MonNext]_vars
    /\ WF_vars(MonRunning)
    /\ WF_vars(MonStep)
    /\ WF_vars(Tick)

\* The same device with nothing assumed about the progress of the monitor
\* thread, which may hang in a sampling cycle.
SpecTearDown ==
    /\ MonInit
    /\ [][MonNext]_vars
    /\ WF_vars(MonRunning)
    /\ WF_vars(Tick)

-----------------------------------------------------------------------------
\* The claimer API, lines 1022-1038, beside the monitor thread.

EvLed(led, v) == Ev("led", led, "", 0, v)

\* What claim and unclaim leave alone.
ClaimFrame ==
    UNCHANGED <<recVars, devVars, dboards, hwVars, ret, boot_args, init_args, init_result,
                sts_time, srcf_freq, ssLocals, xportVars, monVars, mbVars>>

\* claim, lines 1022-1029: LINK is lit when the LED bank exists.
Claim ==
    /\ Begin("claim")
    /\ retry' = FALSE
    /\ pc' = "done"
    /\ result' = "ok"
    /\ IF ~bp_leds.made
       THEN hw_log' = <<>> /\ UNCHANGED bp_leds
       ELSE /\ hw_log' = << EvLed(ClaimLed, 1) >>
            /\ bp_leds' = LedsSet(bp_leds, "foreground", {ClaimLed})
    /\ ClaimFrame

\* unclaim, lines 1031-1038: LINK is turned off when the LED bank exists.
Unclaim ==
    /\ Begin("unclaim")
    /\ retry' = FALSE
    /\ pc' = "done"
    /\ result' = "ok"
    /\ IF ~bp_leds.made
       THEN hw_log' = <<>> /\ UNCHANGED bp_leds
       ELSE /\ hw_log' = << EvLed(ClaimLed, 0) >>
            /\ bp_leds' = LedsSet(bp_leds, "foreground", {ClaimLed})
    /\ ClaimFrame

LedNext == MonNext \/ Claim \/ Unclaim

\* The device of SpecMonitor, claimed and unclaimed by its sessions; nothing
\* is assumed about the progress of either thread.
SpecLeds == MonInit /\ [][LedNext]_vars

-----------------------------------------------------------------------------
\* A device after a boot with the default arguments, with the clock and time
\* calls of its sessions.

\* The foreground thread is idle, no call in progress.
CallIdle ==
    /\ pc = "idle"
    /\ ret = <<>>
    /\ op = ""
    /\ result = ""
    /\ hw_log = <<>>
    /\ retry = FALSE
    /\ last_failed = {}
    /\ boot_args = NoBootArgs
    /\ init_args = NoInitArgs
    /\ init_result = ""
    /\ sts_time = None
    /\ srcf_freq = NoFreq
    /\ pre = NoPre
    /\ ss_args = NoArgs
    /\ ss_clock = None
    /\ ss_time = None
    /\ ss_freq = NoFreq
    /\ ss_i = 0
    /\ ss_base = 0
    /\ ss_pre = NoPre
    /\ ss_status = ""
    /\ ss_failpc = ""
    /\ poll_elapsed = 0
    /\ xp = NoXp
    /\ xp_prev = NoXp

\* After __init__ with no arguments: the defaults are recorded, and applied
\* when there is a daughterboard (lines 260-273); init has run (line 234).
SyncInit ==
    /\ dboards \in DboardConfigs
    /\ fpga_type \in FpgaTypes
    /\ clock_source = N3XX_DEFAULT_CLOCK_SOURCE
    /\ time_source = N3XX_DEFAULT_TIME_SOURCE
    /\ ext_clock_freq = N3XX_DEFAULT_EXT_CLOCK_FREQ
    /\ device_initialized = TRUE
    /\ regs_up = TRUE
    /\ xport_mgrs_up = TRUE
    /\ monitor_thread = "alive"
    /\ gpio = IF dboards = <<>> THEN [l \in GpioLines |-> 0]
              ELSE ApplyWrites([l \in GpioLines |-> 0], GpioWrites(N3XX_DEFAULT_CLOCK_SOURCE))
    /\ ref_clk_en = (dboards # <<>>)
    /\ reg_time_sel = IF dboards = <<>> THEN None
                      ELSE RegsSetTimeSource(N3XX_DEFAULT_TIME_SOURCE)
    /\ pps_out = N3XX_DEFAULT_ENABLE_PPS_EXPORT
    /\ CallIdle
    /\ available_endpoints = FullPool
    /\ rpc_connection = "remote"
    /\ committed = {}
    /\ tear_down = FALSE
    /\ mon_pc = "test"
    /\ mon_wait = 0
    /\ mon_cycles = 0
    /\ mon_waited = 0
    /\ spawned = 1
    /\ join_left = 0
    /\ bp_leds = NewLeds
    /\ RegsQuiet

\* The calls the dispatcher may issue.
SyncCalls == SetSyncSource \/ SetClockSource \/ SetTimeSource \/ SetRefClockFreq

\* The steps of the foreground thread inside a call.
SyncRunning ==
    \/ StsEntry
    \/ SsValidate \/ SsSafeState \/ SsDisableRefClk \/ SsSelectGpio \/ SsRecordClock
    \/ SsSettle \/ SsEnableRefClk \/ SsSetTime \/ SsCheckWhiteRabbit \/ SsPollLock
    \/ SsUpdateDboards \/ SsExit
    \/ Complete

SyncNext == SyncCalls \/ SyncRunning

\* The foreground thread keeps running while it is inside a call; the
\* dispatcher need not issue another call.
SpecSync == SyncInit /\ [][SyncNext]_vars /\ WF_vars(SyncRunning)

Next ==
    \/ Boot \/ BootRails \/ BootRegs \/ BootRefClock \/ BootMeasClock
    \/ BootOptional \/ BootXport \/ BootMonitor \/ BootExcept \/ BootInit \/ BootEnd
    \/ SetSyncSource \/ SetClockSource \/ SetTimeSource \/ StsEntry \/ SetRefClockFreq
    \/ SsValidate \/ SsSafeState \/ SsDisableRefClk \/ SsSelectGpio \/ SsRecordClock
    \/ SsSettle \/ SsEnableRefClk \/ SsSetTime \/ SsCheckWhiteRabbit \/ SsPollLock
    \/ SsUpdateDboards \/ SsExit
    \/ InitCall \/ InitEntry \/ InitDboards \/ InitPpsOut \/ InitXport \/ Deinit
    \/ Complete

Spec == Init /\ [][Next]_vars

-----------------------------------------------------------------------------
\* Properties of set_sync_source and of the recorded sources.

\* What the set_sync_source call in progress (or just finished) has logged.
SsLog == SubSeq(hw_log, ss_base + 1, Len(hw_log))

\* The pair the request of that call resolves to: each supplied value as
\* given, each omitted value as recorded when the call began.
RequestedPair ==
    << DictGet(ss_args.clock_source, ss_pre.clock),
       DictGet(ss_args.time_source, ss_pre.time) >>

\* The compatibility whitelist of the specification.
Whitelist ==
    { <<"internal", "internal">>, <<"internal", "sfp0">>,
      <<"external", "external">>, <<"external", "internal">>,
      <<"gpsdo", "gpsdo">> }

SourceNames == {"internal", "external", "gpsdo", "sfp0"}

\* Nothing recorded and no collaborator differs from what the call found.
SsNothingChanged ==
    /\ SsLog = <<>>
    /\ clock_source = ss_pre.clock
    /\ time_source = ss_pre.time
    /\ ext_clock_freq = ss_pre.freq
    /\ gpio = ss_pre.gpio
    /\ ref_clk_en = ss_pre.ref_clk_en
    /\ reg_time_sel = ss_pre.reg_time_sel

SsRejected == ss_status = "AssertionError" /\ SsNothingChanged

C3_GettersReturnRequestedPair ==
    (pc = "ss_exit" /\ ss_status = "ok")
    => <<clock_source, time_source>> = RequestedPair

C3_Witness ==
    /\ pc = "ss_exit"
    /\ ss_status = "ok"
    /\ ss_args = [clock_source |-> {"gpsdo"}, time_source |-> {"gpsdo"}]
    /\ ss_pre.clock = "internal"
    /\ clock_source = "gpsdo"
    /\ time_source = "gpsdo"
    /\ SsLog # <<>>

C5_NewFreqReachesDboards ==
    (/\ pc = "done"
     /\ op = "set_ref_clock_freq"
     /\ result = "ok"
     /\ srcf_freq # pre.freq
     /\ pre.clock = "external")
    => \A s \in 1..Len(dboards) :
          \E i \in DOMAIN hw_log :
             /\ hw_log[i].op = "update"
             /\ hw_log[i].slot = s
             /\ hw_log[i].val = srcf_freq

\* The events of the apply sequence that do not depend on the daughterboards
\* (steps 2 to 6) are all in the log of the call.
SsAppliedToStep6 ==
    /\ \E i \in DOMAIN SsLog : SsLog[i] = EvRefClk(FALSE)
    /\ Cardinality({i \in DOMAIN SsLog : SsLog[i].op = "gpio"}) = 3
    /\ \E i \in DOMAIN SsLog : SsLog[i].op = "rec_clock"
    /\ \E i \in DOMAIN SsLog : SsLog[i] = EvSleep
    /\ \E i \in DOMAIN SsLog : SsLog[i] = EvRefClk(TRUE)
    /\ \E i \in DOMAIN SsLog : SsLog[i].op = "rec_time"
    /\ \E i \in DOMAIN SsLog : SsLog[i].op = "reg_time"

\* C6 as stated: a set_sync_source request re-issued right after it failed in
\* step 7 or 8 does not return without hardware writes: it runs the apply
\* sequence again, and when it succeeds it has run all of it.
C6_RetryRunsApplySequence ==
    (pc = "ss_exit" /\ retry)
    => /\ SsLog # <<>>
       /\ ss_status = "ok" =>
            /\ SsAppliedToStep6
            /\ \A s \in 1..Len(dboards) :
                  \E i \in DOMAIN SsLog : SsLog[i].op = "update" /\ SsLog[i].slot = s

\* The slots whose daughterboard has set_clk_safe_state.
CapableSlots == {s \in 1..Len(dboards) : dboards[s].has_safe}

\* C7: in the log of every set_sync_source call that has come to its end, by
\* return or by error, a write to a source-select line comes after the safe
\* state of every capable daughterboard and after the reference clock was
\* disabled, while it is still disabled; the reference clock is re-enabled
\* after the three line writes and the recording of the new clock source, and
\* after the settle delay that follows them.
C7_SwitchOnlyWhileRefClockDisabled ==
    pc = "ss_exit" =>
    \A i \in DOMAIN SsLog :
       /\ SsLog[i].op = "gpio" =>
            /\ \A s \in CapableSlots : \E j \in 1..(i-1) : SsLog[j] = EvSafe(s)
            /\ \E j \in 1..(i-1) : SsLog[j] = EvRefClk(FALSE)
            /\ \A j \in 1..(i-1) : SsLog[j] # EvRefClk(TRUE)
       /\ SsLog[i] = EvRefClk(TRUE) =>
            \E k \in 1..(i-1) :
               /\ SsLog[k] = EvSleep
               /\ Cardinality({j \in 1..(k-1) : SsLog[j].op = "gpio"}) = 3
               /\ \E j \in 1..(k-1) : SsLog[j] = EvRecClock(RequestedPair[1])
               /\ \A j \in (k+1)..Len(SsLog) : SsLog[j].op \notin {"gpio", "rec_clock"}

C7_Witness ==
    /\ pc = "ss_exit"
    /\ ss_status = "ok"
    /\ CapableSlots = {1, 2}
    /\ RequestedPair = <<"external", "external">>
    /\ \E i \in DOMAIN SsLog : SsLog[i] = EvRefClk(TRUE)
    /\ \E i \in DOMAIN SsLog : SsLog[i] = EvSafe(2)

\* C8: in the log of every set_sync_source call that has come to its end, by
\* return or by error, the new time source is
\* recorded and written to the register after the reference clock was
\* re-enabled; a daughterboard is updated after that write, after the lock
\* report when the time source is sfp0, after steps 2 to 6 and the safe state of
\* every capable board, and after exactly the boards of the slots before it.
C8_TimeSourceThenDboardsInOrder ==
    pc = "ss_exit" =>
    \A i \in DOMAIN SsLog :
       /\ SsLog[i].op \in {"rec_time", "reg_time"} =>
            \E j \in 1..(i-1) : SsLog[j] = EvRefClk(TRUE)
       /\ SsLog[i].op = "update" =>
            /\ \E j \in 1..(i-1) : SsLog[j] = EvRecTime(RequestedPair[2])
            /\ \E j \in 1..(i-1) : SsLog[j].op = "reg_time" /\ SsLog[j].name = RequestedPair[2]
            /\ RequestedPair[2] = "sfp0" => \E j \in 1..(i-1) : SsLog[j] = EvWrLock
            /\ \E j \in 1..(i-1) : SsLog[j] = EvRefClk(FALSE)
            /\ Cardinality({j \in 1..(i-1) : SsLog[j].op = "gpio"}) = 3
            /\ \E j \in 1..(i-1) : SsLog[j].op = "rec_clock"
            /\ \E j \in 1..(i-1) : SsLog[j] = EvSleep
            /\ \A s \in CapableSlots : \E j \in 1..(i-1) : SsLog[j] = EvSafe(s)
            /\ {SsLog[j].slot : j \in {k \in 1..(i-1) : SsLog[k].op = "update"}}
                 = 1..(SsLog[i].slot - 1)

C8_Witness ==
    /\ pc = "ss_exit"
    /\ ss_status = "ok"
    /\ RequestedPair = <<"internal", "sfp0">>
    /\ Len(dboards) = 2
    /\ \E i \in DOMAIN SsLog : SsLog[i] = EvWrLock
    /\ \E i \in DOMAIN SsLog : SsLog[i].op = "update" /\ SsLog[i].slot = 2

\* The step of the apply sequence (1 to 8) an event belongs to, and the step a
\* statement group that failed belongs to.
StepOfEvent(e) ==
    CASE e.op = "safe" -> 1
      [] e.op = "ref_clk" /\ e.val = 0 -> 2
      [] e.op = "gpio" -> 3
      [] e.op \in {"rec_clock", "sleep"} -> 4
      [] e.op = "ref_clk" /\ e.val = 1 -> 5
      [] e.op \in {"rec_time", "reg_time"} -> 6
      [] e.op = "wr_lock" -> 7
      [] OTHER -> 8

StepOfFailure(p) ==
    CASE p = "ss_safe" -> 1
      [] p = "ss_refoff" -> 2
      [] p = "ss_gpio" -> 3
      [] p \in {"ss_recclock", "ss_settle"} -> 4
      [] p = "ss_refon" -> 5
      [] p = "ss_settime" -> 6
      [] p \in {"ss_wr", "ss_poll"} -> 7
      [] OTHER -> 8

\* The value the last event of kind k in the log gives, or d when there is none.
LastName(k, d) ==
    IF \E i \in DOMAIN SsLog : SsLog[i].op = k
    THEN SsLog[CHOOSE i \in DOMAIN SsLog :
                  /\ SsLog[i].op = k
                  /\ \A j \in (i+1)..Len(SsLog) : SsLog[j].op # k].name
    ELSE d

LastVal(k, n, d) ==
    IF \E i \in DOMAIN SsLog : SsLog[i].op = k /\ SsLog[i].name = n
    THEN SsLog[CHOOSE i \in DOMAIN SsLog :
                  /\ SsLog[i].op = k /\ SsLog[i].name = n
                  /\ \A j \in (i+1)..Len(SsLog) : ~(SsLog[j].op = k /\ SsLog[j].name = n)].val
    ELSE d

\* C9: when set_sync_source has failed after validation, it has ended with an
\* error, nothing of a later step is in its log, what the earlier steps wrote
\* and recorded is still in place, and when the failure is a daughterboard
\* update, no board of a later slot was updated and the caller gets the error.
C9_FailureStopsAndKeepsWrites ==
    /\ (pc = "ss_exit" /\ ss_failpc \notin {"", "ss_entry"}) =>
          /\ ss_status \notin {"ok", "running", ""}
          /\ \A i \in DOMAIN SsLog : StepOfEvent(SsLog[i]) <= StepOfFailure(ss_failpc)
          /\ clock_source = LastName("rec_clock", ss_pre.clock)
          /\ time_source = LastName("rec_time", ss_pre.time)
          /\ reg_time_sel = LastName("reg_time", ss_pre.reg_time_sel)
          /\ \A l \in GpioLines : gpio[l] = LastVal("gpio", l, ss_pre.gpio[l])
          /\ ref_clk_en = (LastVal("ref_clk", "", IF ss_pre.ref_clk_en THEN 1 ELSE 0) = 1)
          /\ StepOfFailure(ss_failpc) > 4 => clock_source = RequestedPair[1]
          /\ StepOfFailure(ss_failpc) > 6 => time_source = RequestedPair[2]
          /\ ss_failpc = "ss_update" =>
                \E k \in 1..Len(dboards) :
                   {SsLog[j].slot : j \in {n \in DOMAIN SsLog : SsLog[n].op = "update"}}
                     = 1..(k-1)
    /\ (pc = "done" /\ op # "boot" /\ ss_failpc = "ss_update") => result = "BoardError"

C9_Witness ==
    /\ pc = "done"
    /\ op = "set_sync_source"
    /\ ss_failpc = "ss_update"
    /\ result = "BoardError"
    /\ Len(dboards) = 2
    /\ ss_pre.clock = "internal"
    /\ clock_source = "gpsdo"
    /\ \E i \in DOMAIN SsLog : SsLog[i].op = "update" /\ SsLog[i].slot = 1
    /\ gpio["CLK-MAINSEL-GPS"] = 1

\* C10 as stated: on a device that booted successfully and is between two
\* calls, a recorded external frequency of 20 MHz goes with time source external.
C10_TwentyMHzOnlyWithExternalTime ==
    (pc = "idle" /\ device_initialized /\ ext_clock_freq = 20)
    => time_source = "external"

-----------------------------------------------------------------------------
\* Properties of set_ref_clock_freq and of the validation of set_sync_source.

\* The call that has come back to the dispatcher has recorded nothing and has
\* written to no collaborator.
CallChangedNothing ==
    /\ hw_log = <<>>
    /\ clock_source = pre.clock
    /\ time_source = pre.time
    /\ ext_clock_freq = pre.freq
    /\ gpio = pre.gpio
    /\ ref_clk_en = pre.ref_clk_en
    /\ pps_out = pre.pps_out
    /\ reg_time_sel = pre.reg_time_sel

\* C11 as stated: whenever the recorded time source is not external,
\* set_ref_clock_freq(20 MHz) has failed with an error and the recorded
\* external frequency is what it was, whatever it was.
C11_TwentyMHzRefusedWithoutExternalTime ==
    (/\ pc = "done"
     /\ op = "set_ref_clock_freq"
     /\ srcf_freq = 20
     /\ pre.time # "external")
    => (result = "RuntimeError" /\ ext_clock_freq = pre.freq)

\* C12: set_ref_clock_freq with a frequency outside 10, 20 and 25 MHz has
\* failed with an error, has recorded nothing and has written nothing, in
\* every state; with one of these frequencies, equal to the recorded one, it
\* has returned and has written nothing.
C12_UnsupportedFreqRejectedSameFreqNoOp ==
    (pc = "done" /\ op = "set_ref_clock_freq") =>
       /\ srcf_freq \notin {10, 20, 25} =>
             (result = "RuntimeError" /\ CallChangedNothing)
       /\ (srcf_freq \in {10, 20, 25} /\ srcf_freq = pre.freq) =>
             (result = "ok" /\ CallChangedNothing)

C12_Witness ==
    /\ pc = "done"
    /\ op = "set_ref_clock_freq"
    /\ device_initialized
    /\ srcf_freq = OtherFreq
    /\ pre.clock = "external"
    /\ pre.freq = 10
    /\ Len(dboards) = 2
    /\ result = "RuntimeError"
    /\ CallChangedNothing

\* C13 as stated: whenever a device whose boot succeeded is between two
\* calls, the recorded external frequency is 10, 20 or 25 MHz.
C13_RecordedFreqSupported ==
    (pc = "idle" /\ device_initialized) => ext_clock_freq \in {10, 20, 25}

\* C14: a set_sync_source request that supplies a clock source outside
\* internal, external and gpsdo, or a time source outside internal, external,
\* gpsdo and sfp0, has ended with a validation error, in the call itself, with
\* nothing written and the recorded pair as it was.
C14_UnsupportedSourceRejected ==
    (/\ pc = "ss_exit"
     /\ \/ /\ ss_args.clock_source # {}
            /\ ss_args.clock_source \cap {"internal", "external", "gpsdo"} = {}
         \/ /\ ss_args.time_source # {}
            /\ ss_args.time_source \cap {"internal", "external", "gpsdo", "sfp0"} = {})
    => (SsRejected /\ ss_failpc = "ss_entry" /\ ss_i = 0)

C14_Witness ==
    /\ pc = "ss_exit"
    /\ op = "set_sync_source"
    /\ device_initialized
    /\ ss_args = [clock_source |-> {"external"}, time_source |-> {"bogus"}]
    /\ ss_pre.clock = "internal"
    /\ Len(dboards) = 2
    /\ SsRejected

-----------------------------------------------------------------------------
\* Properties of the transport calls, over SpecXport.

\* The addresses of a pool, and all the addresses there are.
PoolSet(pool) == {pool[i] : i \in DOMAIN pool}
AllAddresses == 0..(PoolSize - 1)

\* The lowest address of a non-empty pool.
LowestFree(pool) == CHOOSE a \in PoolSet(pool) : \A b \in PoolSet(pool) : a <= b

\* C15: when request_xport returns an endpoint, its source address is the
\* suggested address when the call found that address in the free pool, and
\* otherwise the lowest address of the free pool.
C15_SuggestedElseLowestFree ==
    (pc = "done" /\ op = "request_xport" /\ result = "ok") =>
       SidSrcEp(xp.ret) = IF xp.suggested \in PoolSet(xp.pool)
                          THEN xp.suggested
                          ELSE LowestFree(xp.pool)

C15_Witness ==
    /\ pc = "done"
    /\ op = "request_xport"
    /\ result = "ok"
    /\ xp.suggested = 5
    /\ PoolSet(xp.pool) = AllAddresses \ {5}
    /\ committed = {5}
    /\ SidSrcEp(xp.ret) = 0

\* C16 as stated: request_xport, whether it has returned or failed, has left the
\* free pool as it found it; and a request that follows a request, no other
\* call between them, has returned the same source address.
C16_RequestLeavesPoolSameAddress ==
    (pc = "done" /\ op = "request_xport") =>
       /\ available_endpoints = xp.pool
       /\ (xp_prev # NoXp /\ xp.ret # -1 /\ xp_prev.ret # -1) =>
             SidSrcEp(xp.ret) = SidSrcEp(xp_prev.ret)

\* C16 amended: request_xport, whether it has returned or failed, has left the
\* free pool as it found it; and a request that follows a request with the
\* same suggested address, no other call between them, has the same outcome:
\* the same source address, or a failure as before.
C16_RequestLeavesPool ==
    (pc = "done" /\ op = "request_xport") =>
       /\ available_endpoints = xp.pool
       /\ (xp_prev # NoXp /\ xp_prev.suggested = xp.suggested) =>
             /\ (xp.ret = -1) = (xp_prev.ret = -1)
             /\ xp.ret # -1 => SidSrcEp(xp.ret) = SidSrcEp(xp_prev.ret)

C16_Witness ==
    /\ pc = "done"
    /\ op = "request_xport"
    /\ result = "ok"
    /\ xp_prev # NoXp
    /\ xp_prev.suggested = xp.suggested
    /\ xp.suggested = PoolSize
    /\ Len(available_endpoints) = 3
    /\ SidSrcEp(xp.ret) = SidSrcEp(xp_prev.ret)

\* C17: commit_xport has taken the source address of its endpoint from the
\* free pool, and nothing else; when the call did not find that address in the
\* pool it has failed, the pool is as it was and no backend was called.
C17_CommitTakesAddressOrFails ==
    (pc = "done" /\ op = "commit_xport") =>
       IF SidSrcEp(xp.sid) \in PoolSet(xp.pool)
       THEN /\ PoolSet(available_endpoints) = PoolSet(xp.pool) \ {SidSrcEp(xp.sid)}
            /\ Len(available_endpoints) = Len(xp.pool) - 1
       ELSE /\ result = "ValueError"
            /\ available_endpoints = xp.pool
            /\ hw_log = <<>>

C17_Witness ==
    /\ pc = "done"
    /\ op = "commit_xport"
    /\ device_initialized
    /\ SidSrcEp(xp.sid) = 5
    /\ 5 \in committed
    /\ result = "ValueError"
    /\ available_endpoints = xp.pool

\* The free pool holds no address twice and only addresses there are.
PoolWellFormed ==
    /\ \A i, j \in DOMAIN available_endpoints :
          available_endpoints[i] = available_endpoints[j] => i = j
    /\ PoolSet(available_endpoints) \subseteq AllAddresses

\* C18: the free pool is a duplicate-free subset of the addresses;
\* the addresses committed with success since the last reset and the free
\* pool are disjoint and together are all the addresses; a commit that
\* succeeds found its address free.
C18_CommittedAndFreePartition ==
    /\ PoolWellFormed
    /\ committed \cap PoolSet(available_endpoints) = {}
    /\ committed \cup PoolSet(available_endpoints) = AllAddresses
    /\ (pc = "done" /\ op = "commit_xport" /\ result = "ok") =>
          SidSrcEp(xp.sid) \in PoolSet(xp.pool)

-----------------------------------------------------------------------------
\* Properties of the device boot.

\* The positions of the log that hold an event of the kind o.
LogPositions(o) == {i \in DOMAIN hw_log : hw_log[i].op = o}

\* The compat check is the last thing the boot has done so far.
CompatJustChecked ==
    /\ op = "boot"
    /\ hw_log # <<>>
    /\ hw_log[Len(hw_log)].op = "compat"

\* The major and the minor the compat check has last seen.
CompatMajor == hw_log[Len(hw_log)].slot
CompatMinor == hw_log[Len(hw_log)].val

\* The boot has failed at the compat check: nothing follows the check, and
\* the device ends uninitialized.
CompatFailed ==
    /\ hw_log[Len(hw_log)].name = "error"
    /\ pc \notin {"bp_refclk", "ss_entry"}
    /\ pc = "done" => ~device_initialized

\* The boot carries on after the compat check, with a warning.
CompatWarned ==
    /\ hw_log[Len(hw_log)].name = "warning"
    /\ pc = "bp_refclk"

\* C24 as stated: a compat number whose major is not the expected one makes
\* the boot fail; one with the expected major and an older or a newer minor
\* gives a warning only and the boot carries on.
C24_MajorFatalMinorWarns ==
    CompatJustChecked =>
       /\ CompatMajor # N3XX_FPGA_COMPAT[1] => CompatFailed
       /\ (CompatMajor = N3XX_FPGA_COMPAT[1] /\ CompatMinor # N3XX_FPGA_COMPAT[2])
             => CompatWarned

\* C24 amended: a compat number whose major is not the expected one, or whose
\* major is the expected one and whose minor is older than expected, makes the
\* boot fail; one with the expected major and a newer minor gives a warning
\* only and the boot carries on; the expected number passes without one.
C24_MajorOrOldMinorFatalNewMinorWarns ==
    CompatJustChecked =>
       /\ CompatMajor # N3XX_FPGA_COMPAT[1] => CompatFailed
       /\ (CompatMajor = N3XX_FPGA_COMPAT[1] /\ CompatMinor < N3XX_FPGA_COMPAT[2])
             => CompatFailed
       /\ (CompatMajor = N3XX_FPGA_COMPAT[1] /\ CompatMinor > N3XX_FPGA_COMPAT[2])
             => CompatWarned
       /\ (CompatMajor = N3XX_FPGA_COMPAT[1] /\ CompatMinor = N3XX_FPGA_COMPAT[2])
             => (hw_log[Len(hw_log)].name = "ok" /\ pc = "bp_refclk")

C24_Witness ==
    /\ CompatJustChecked
    /\ CompatMajor = N3XX_FPGA_COMPAT[1]
    /\ CompatMinor = N3XX_FPGA_COMPAT[2] - 1
    /\ pc = "done"
    /\ ~device_initialized

\* The power and clock rails of lines 326-341.
BootRailLines ==
    {"PWREN-CLK-MGT156MHz", "NETCLK-CE", "PWREN-CLK-WB-20MHz", "PWREN-GPS", "FPGA-GPIO-EN"}

\* The boot step an event of _init_peripherals belongs to: 1 rail bring-up,
\* 2 compat check, 3 default sync source (with the reference clock enable of
\* line 351), 4 measurement clock, 5 optional peripherals, 6 transport
\* backends, 7 monitor thread.
BootStepOf(e) ==
    CASE e.op = "rail" /\ e.name \in BootRailLines -> 1
      [] e.op = "compat" -> 2
      [] e.op = "meas_clk" -> 4
      [] e.op = "qsfp" -> 5
      [] e.op = "xport_mgrs" -> 6
      [] e.op = "monitor" -> 7
      [] OTHER -> 3

\* The part of the boot's log that _init_peripherals wrote: up to the spawn
\* of the monitor thread when there is one, all of it otherwise.
PeriphLog ==
    IF LogPositions("monitor") = {} THEN hw_log
    ELSE SubSeq(hw_log, 1, CHOOSE i \in LogPositions("monitor") : TRUE)

BootStepsRun == {BootStepOf(PeriphLog[i]) : i \in DOMAIN PeriphLog}

-----------------------------------------------------------------------------
\* Properties of the White Rabbit time source and of the end of set_sync_source.

\* The call has neither asked the timing core for its lock nor updated a
\* daughterboard.
NoPollNoUpdate ==
    /\ ss_failpc # "ss_poll"
    /\ \A i \in DOMAIN SsLog : SsLog[i].op \notin {"wr_lock", "update"}

\* The call has updated no daughterboard.
NoUpdateLogged == \A i \in DOMAIN SsLog : SsLog[i].op # "update"

\* C25: a set_sync_source call that has come to its end with the resolved
\* time source sfp0, on an image type that does not support the timing core,
\* has failed with an error, has never polled the lock status and has updated
\* no daughterboard.
C25_Sfp0RefusedWithoutTimingCore ==
    (pc = "ss_exit" /\ ss_time = "sfp0" /\ fpga_type \notin sfp_time_source_images)
    => (ss_status # "ok" /\ NoPollNoUpdate)

-----------------------------------------------------------------------------
\* Properties of the monitor thread and of tear_down, over SpecMonitor.

\* C21: once the tear-down flag is set the monitor loop starts at most one
\* more sampling cycle and waits no longer than one interval; it enters no
\* wait with the flag set, and a wait that ends with the flag set ends the
\* thread; under fair scheduling a started monitor thread has ended some time
\* after the flag was set.
C21_MonitorEndsWithinOneInterval ==
    /\ [](mon_cycles <= 1 /\ mon_waited <= MonitorIntervalTicks)
    /\ [][tear_down =>
            /\ mon_pc' = "wait" => mon_pc = "wait"
            /\ (mon_pc = "wait" /\ mon_pc' # "wait") => mon_pc' = "exited"]_vars
    /\ ((tear_down /\ mon_pc # "none") ~> (mon_pc = "exited"))

C21_Witness ==
    /\ tear_down
    /\ mon_pc = "exited"
    /\ mon_waited = MonitorIntervalTicks
    /\ pc = "td_join"
    /\ join_left = JoinTimeoutTicks - MonitorIntervalTicks

\* C22: tear_down sets the flag before it joins and joins only on an
\* initialized device; when it has returned, the flag is set, the join, if
\* any, has waited no longer than three intervals, a thread found alive was
\* reported and nothing else, and the overlays were removed as the last step;
\* whatever the monitor thread does, a tear_down that was called returns.
C22_TearDownCompletes ==
    /\ [](pc \in {"td_join", "td_alive"} => (tear_down /\ device_initialized))
    /\ []((pc = "done" /\ op = "tear_down") =>
            /\ result = "ok"
            /\ tear_down
            /\ hw_log[1] = EvFlag
            /\ hw_log[Len(hw_log)] = EvOverlays
            /\ device_initialized = (LogPositions("join") # {})
            /\ \A i \in LogPositions("join") :
                  /\ i = 2
                  /\ hw_log[i].val <= JoinIntervals * MonitorIntervalTicks
            /\ \A i \in LogPositions("monitor_leak") :
                  i = 3 /\ LogPositions("join") # {} /\ Len(hw_log) = 4)
    /\ ((op = "tear_down") ~> (op = "tear_down" /\ pc = "done"))

C22_Witness ==
    /\ pc = "done"
    /\ op = "tear_down"
    /\ result = "ok"
    /\ hw_log = <<EvFlag, EvJoin(JoinIntervals * MonitorIntervalTicks), EvLeak, EvOverlays>>
    /\ mon_pc = "sample"

-----------------------------------------------------------------------------
\* Termination of set_sync_source, over SpecSync.

\* C26: the lock status is polled for the time source sfp0 only, every
\* 1000 ms and for no longer than 40000 ms; the poll ends with the lock
\* reported, and the call then goes on to the daughterboard updates, or with
\* the time used up, and the call then ends with an error, no daughterboard
\* updated; every set_sync_source call that was begun comes to its end.
C26_SetSyncSourceTerminates ==
    /\ [](/\ poll_elapsed <= WR_LOCK_TIMEOUT_MS
          /\ poll_elapsed % WR_LOCK_POLL_MS = 0
          /\ pc = "ss_poll" => ss_time = "sfp0"
          /\ (pc = "ss_exit" /\ ss_failpc = "ss_poll") =>
                (ss_status = "RuntimeError" /\ NoUpdateLogged))
    /\ [][(pc = "ss_poll" /\ pc' # "ss_poll") =>
             \/ pc' = "ss_update" /\ hw_log' = Append(hw_log, EvWrLock)
             \/ /\ pc' = "ss_exit"
                /\ poll_elapsed = WR_LOCK_TIMEOUT_MS
                /\ ss_status' = "RuntimeError"]_vars
    /\ ((ss_status = "running") ~> (pc = "ss_exit"))

C26_Witness ==
    /\ pc = "ss_exit"
    /\ ss_failpc = "ss_poll"
    /\ ss_status = "RuntimeError"
    /\ ss_time = "sfp0"
    /\ fpga_type = "WX"
    /\ Len(dboards) = MaxDboards

-----------------------------------------------------------------------------
\* Properties of init and deinit.

\* What the init call in progress (or just finished) has logged: all of the
\* log of a session's init, the log after the spawn of the monitor thread for
\* the init of the boot (line 234).
InitLog ==
    IF op = "init" THEN hw_log
    ELSE IF op = "boot" /\ LogPositions("monitor") # {}
    THEN SubSeq(hw_log, (CHOOSE i \in LogPositions("monitor") : TRUE) + 1, Len(hw_log))
    ELSE <<>>

\* The kinds of event of set_sync_source.
SyncEventKinds ==
    {"safe", "ref_clk", "gpio", "rec_clock", "sleep", "rec_time", "reg_time",
     "wr_lock", "update"}

InitLogPositions(kinds) == {i \in DOMAIN InitLog : InitLog[i].op \in kinds}

\* C27: an init call on an initialized device begins by disabling the PPS
\* export, which stays disabled while the sync source is reapplied and the
\* daughterboards are initialised; it is set again once, as pps_export says
\* (enabled when absent), after the daughterboard init and every event of the
\* sync source, and the transport backends are initialised after that, as the
\* last step of an init that returns; on an uninitialized device init does
\* none of this.
C27_PpsOffDuringInit ==
    /\ (op = "init" /\ ~device_initialized) => hw_log = <<>>
    /\ (pc \in {"init_dbinit", "init_ppson"}
          \/ (pc \in {"ss_entry", "ss_exit"} \cup {ApplySequence[k] : k \in DOMAIN ApplySequence}
                /\ (op = "init" \/ (op = "boot" /\ monitor_thread # None))))
          => ~pps_out
    /\ (pc = "done" /\ op \in {"init", "boot"}) =>
          LET ilog == InitLog
              at(kinds) == {i \in DOMAIN ilog : ilog[i].op \in kinds}
          IN /\ ilog # <<>> =>
                   /\ ilog[1] = EvPpsOut(FALSE)
                   /\ \A i \in at({"pps_out"}) : i # 1 =>
                         /\ ilog[i] = EvPpsOut(DictGet(init_args.pps_export,
                                                       N3XX_DEFAULT_ENABLE_PPS_EXPORT))
                         /\ \E j \in 1..(i-1) : ilog[j] = EvDbInit
                         /\ \A j \in at(SyncEventKinds \cup {"db_init", "pps_out"}) : j <= i
                   /\ \A i \in at({"xport_init"}) :
                         /\ i = Len(ilog)
                         /\ ilog[i - 1].op = "pps_out"
                         /\ i - 1 # 1
                   /\ \A i \in at({"db_init"}) : \A j \in at(SyncEventKinds) : j < i
             /\ (op = "init" /\ result = "true") =>
                   (ilog # <<>> /\ ilog[Len(ilog)] = EvXportInit)

C27_Witness ==
    /\ pc = "done"
    /\ op = "init"
    /\ result = "true"
    /\ init_args.pps_export = {FALSE}
    /\ InitLogPositions({"update"}) # {}
    /\ InitLog[Len(InitLog)] = EvXportInit
    /\ ~pps_out

\* No event of set_sync_source is in the log of the call.
NoSyncEvent == \A i \in DOMAIN hw_log : hw_log[i].op \notin SyncEventKinds

C29_DeinitLeavesClockingAndMonitor ==
    [][(pc = "idle" /\ op' = "deinit") =>
          /\ UNCHANGED <<clock_source, time_source, ext_clock_freq>>
          /\ UNCHANGED <<gpio, ref_clk_en, pps_out, reg_time_sel>>
          /\ UNCHANGED <<tear_down, monitor_thread, mon_pc, mon_wait, spawned>>
          /\ UNCHANGED <<device_initialized, regs_up, fpga_type, xport_mgrs_up, dboards>>
          /\ hw_log' = IF device_initialized THEN <<EvDbDeinit, EvXportDeinit>> ELSE <<>>]_vars

C29_Witness ==
    /\ pc = "done"
    /\ op = "deinit"
    /\ hw_log = <<EvDbDeinit, EvXportDeinit>>
    /\ clock_source = "external"
    /\ time_source = "external"
    /\ ~tear_down
    /\ mon_pc = "wait"
    /\ mon_wait = 1

\* C30: no more than one monitor thread is ever started; it is started by
\* the last step of a boot and by nothing else, so that after the boot there
\* is one exactly on an initialized device; no step of init or deinit starts
\* a thread, sets or clears the flag or changes the thread handle; the flag,
\* once set, stays set, and no thread is started while it is set.
C30_OneMonitorThread ==
    /\ [](spawned <= 1)
    /\ [](pc \in {"idle", "done"} => (spawned = 1) = device_initialized)
    /\ [](pc \in {"idle", "done"} => (monitor_thread # None) = device_initialized)
    /\ [][spawned' # spawned => (op = "boot" /\ pc = "bp_monitor" /\ pc' = "boot_init")]_vars
    /\ [][op' \in {"init", "deinit"} =>
             UNCHANGED <<spawned, tear_down, monitor_thread>>]_vars
    /\ [][tear_down => (tear_down' /\ spawned' = spawned)]_vars

C30_Witness ==
    /\ pc = "done"
    /\ op = "init"
    /\ result = "true"
    /\ tear_down
    /\ spawned = 1
    /\ mon_pc = "exited"

-----------------------------------------------------------------------------
\* Properties of the backend selection, over SpecXportMode.

\* The backend calls a transport call has made.
BackendCalls ==
    {i \in DOMAIN hw_log : hw_log[i].op \in {"xport_request", "xport_commit"}}

\* C31: a request_xport or commit_xport that has returned has called exactly
\* one backend, once: the UDP backend when the connection mode is remote, the
\* Liberio backend when it is local; no call has called more than one backend
\* or a backend the mode does not select; with any other connection mode the
\* call has failed without calling a backend, and commit_xport has then left
\* the free pool as it found it.
C31_OneBackendByConnectionMode ==
    (pc = "done" /\ op \in {"request_xport", "commit_xport"}) =>
       /\ Cardinality(BackendCalls) <= 1
       /\ Len(hw_log) = Cardinality(BackendCalls)
       /\ result = "ok" => Cardinality(BackendCalls) = 1
       /\ \A i \in BackendCalls :
             /\ hw_log[i].op = IF op = "request_xport" THEN "xport_request" ELSE "xport_commit"
             /\ hw_log[i].val = xp.sid
             /\ rpc_connection = "remote" => hw_log[i].name = "udp"
             /\ rpc_connection = "local" => hw_log[i].name = "liberio"
       /\ rpc_connection \notin {"remote", "local"} =>
             /\ result \notin {"", "ok"}
             /\ BackendCalls = {}
             /\ op = "commit_xport" => available_endpoints = xp.pool

C31_Witness ==
    /\ pc = "done"
    /\ op = "commit_xport"
    /\ rpc_connection = "none"
    /\ device_initialized
    /\ SidSrcEp(xp.sid) = 5
    /\ 5 \in PoolSet(available_endpoints)
    /\ result = "AssertionError"

-----------------------------------------------------------------------------
\* Properties of a commit whose backend fails, over SpecXport.

\* The commit_xport that has just ended got as far as its backend, which
\* raised.
BackendCommitFailed ==
    /\ pc = "done"
    /\ op = "commit_xport"
    /\ result \in {"RuntimeError", "AttributeError"}

\* C38: when the backend of commit_xport has failed, the source address of
\* the endpoint is out of the free pool all the same, and nothing else has
\* left it; no step other than a deinit ever puts an address into the free
\* pool, and the deinit that does leaves the pool full.
C38_FailedCommitKeepsAddressOut ==
    /\ [](BackendCommitFailed =>
             /\ SidSrcEp(xp.sid) \in PoolSet(xp.pool)
             /\ SidSrcEp(xp.sid) \notin PoolSet(available_endpoints)
             /\ PoolSet(available_endpoints) = PoolSet(xp.pool) \ {SidSrcEp(xp.sid)})
    /\ [][~(PoolSet(available_endpoints') \subseteq PoolSet(available_endpoints)) =>
             /\ op' = "deinit"
             /\ device_initialized
             /\ PoolSet(available_endpoints') = AllAddresses]_vars

C38_Witness ==
    /\ BackendCommitFailed
    /\ device_initialized
    /\ result = "RuntimeError"
    /\ SidSrcEp(xp.sid) = 5
    /\ 5 \notin committed
    /\ 5 \notin PoolSet(available_endpoints)
    /\ committed # {}

-----------------------------------------------------------------------------
\* Properties of set_clock_source and set_time_source.

\* The source that goes with a source set on its own.
CompanionTime(c) == c
CompanionClock(t) == IF t = "sfp0" THEN "internal" ELSE t

\* The set_sync_source call in progress, or just ended, failed its validation.
SsFailedValidation == ss_status = "AssertionError" /\ ss_failpc = "ss_entry"

\* C33: set_clock_source(c) with a supported c, and set_time_source(t) with a
\* supported t, pass set_sync_source a pair of the whitelist that holds the
\* supplied value; the other value of the pair is the recorded one when the
\* supplied value and the recorded one are a pair of the whitelist, and the
\* companion of the supplied value otherwise; the validation of
\* set_sync_source does not fail.
C33_SingleSourceRepairsPair ==
    /\ (op = "set_clock_source" /\ ss_status # "" /\ ss_args.clock_source \subseteq get_clock_sources) =>
          LET c == DictGet(ss_args.clock_source, None)
              t == DictGet(ss_args.time_source, None)
          IN /\ <<c, t>> \in Whitelist
             /\ t = IF <<c, pre.time>> \in Whitelist THEN pre.time ELSE CompanionTime(c)
             /\ ~SsFailedValidation
             /\ ss_status = "ok" => (clock_source = c /\ time_source = t)
    /\ (op = "set_time_source" /\ ss_status # "" /\ ss_args.time_source \subseteq get_time_sources) =>
          LET c == DictGet(ss_args.clock_source, None)
              t == DictGet(ss_args.time_source, None)
          IN /\ t = sts_time
             /\ <<c, t>> \in Whitelist
             /\ c = IF <<pre.clock, t>> \in Whitelist THEN pre.clock ELSE CompanionClock(t)
             /\ ~SsFailedValidation
             /\ ss_status = "ok" => (clock_source = c /\ time_source = t)

C33_Witness ==
    /\ pc = "done"
    /\ op = "set_time_source"
    /\ result = "ok"
    /\ pre.clock = "gpsdo"
    /\ pre.time = "gpsdo"
    /\ sts_time = "sfp0"
    /\ clock_source = "internal"
    /\ time_source = "sfp0"

-----------------------------------------------------------------------------
\* Properties of the reference frequency.

\* The frequency that belongs to clock source c when e is the recorded
\* external frequency, in MHz.
PerSourceFreq(c, e) ==
    IF c = "internal" THEN 25 ELSE IF c = "gpsdo" THEN 20 ELSE e

\* The daughterboard updates of the set_sync_source call in progress.
SsUpdates == {i \in DOMAIN hw_log : i > ss_base /\ hw_log[i].op = "update"}

\* C34: every daughterboard update of set_sync_source carries the frequency
\* that belongs to the clock source the call has recorded (25 for internal,
\* 20 for gpsdo, the recorded external frequency for external) and the
\* resolved clock and time source; when the call has succeeded past its
\* short-circuit every daughterboard has been updated; get_ref_clock_freq
\* answers that per-source frequency, and no step of set_ref_clock_freq
\* changes its answer while the clock source is internal or gpsdo.
C34_DboardsGetNewSourceFreq ==
    /\ [](pc \in {"ss_update", "ss_exit"} =>
            /\ \A i \in SsUpdates :
                  /\ hw_log[i].val = PerSourceFreq(clock_source, ext_clock_freq)
                  /\ hw_log[i].clk = clock_source
                  /\ hw_log[i].name = time_source
                  /\ clock_source = ss_clock
                  /\ time_source = ss_time
            /\ (pc = "ss_exit" /\ ss_status = "ok" /\ Len(hw_log) > ss_base) =>
                  {hw_log[i].slot : i \in SsUpdates} = DOMAIN dboards)
    /\ [](clock_source \in get_clock_sources =>
            get_ref_clock_freq(clock_source, ext_clock_freq)
               = PerSourceFreq(clock_source, ext_clock_freq))
    /\ [][(op' = "set_ref_clock_freq" /\ clock_source \in {"internal", "gpsdo"}) =>
             get_ref_clock_freq(clock_source', ext_clock_freq')
                = get_ref_clock_freq(clock_source, ext_clock_freq)]_vars

C34_Witness ==
    /\ pc = "ss_exit"
    /\ ss_status = "ok"
    /\ ss_pre.clock = "external"
    /\ ss_pre.freq = 10
    /\ clock_source = "gpsdo"
    /\ Len(dboards) = 2
    /\ \A i \in SsUpdates : hw_log[i].val = 20
    /\ Cardinality(SsUpdates) = 2

-----------------------------------------------------------------------------
\* Properties of the source-select lines.

\* The combination of the lines EX_B, 25MHz and GPS that belongs to clock
\* source c.
SelectCombination(c) ==
    IF c = "internal" THEN <<1, 1, 0>>
    ELSE IF c = "gpsdo" THEN <<1, 0, 1>>
    ELSE <<0, 1, 0>>

SelectLines ==
    << gpio["CLK-MAINSEL-EX_B"], gpio["CLK-MAINSEL-25MHz"], gpio["CLK-MAINSEL-GPS"] >>

-----------------------------------------------------------------------------
\* Properties of a failing init.

\* init has switched PPS export on.
InitEnabledPps == \E i \in DOMAIN hw_log : hw_log[i] = EvPpsOut(TRUE)

\* C37: when init, past its check of the device, has failed, by an exception of
\* set_sync_source or of the daughterboard init or by the daughterboard init
\* reporting failure, PPS export is disabled and init has not enabled it;
\* init has enabled PPS export only after set_sync_source and the
\* daughterboard init both succeeded.
C37_PpsStaysOffWhenInitFails ==
    /\ (pc = "done" /\ op = "init" /\ hw_log # <<>> /\ result # "true") =>
          (~pps_out /\ ~InitEnabledPps)
    /\ (op = "init" /\ InitEnabledPps) => (ss_status = "ok" /\ init_result = "true")

-----------------------------------------------------------------------------
\* Properties of the two threads' writes, over SpecLeds.

\* The step is one of the monitor thread.
MonitorStepTaken == mon_pc # "none" /\ mon_pc' # mon_pc

\* C36: no step of the monitor thread, wherever the foreground thread stands,
\* changes the recorded clock source, time source or external frequency, the
\* free pool or the tear-down flag; the monitor thread has set no indicator
\* but GPS and REF, and the foreground thread none but LINK; claim and
\* unclaim change the LED bank by setting LINK alone.
C36_MonitorWritesOnlyItsLeds ==
    /\ [][MonitorStepTaken =>
             UNCHANGED <<clock_source, time_source, ext_clock_freq,
                         available_endpoints, tear_down>>]_vars
    /\ [](\A w \in bp_leds.set :
             /\ w[1] = "monitor" => w[2] \in {"GPS", "REF"}
             /\ w[1] = "foreground" => w[2] = "LINK")
    /\ [][(op' \in {"claim", "unclaim"} /\ bp_leds' # bp_leds /\ ~MonitorStepTaken) =>
             /\ bp_leds'.made = bp_leds.made
             /\ bp_leds'.set = bp_leds.set \cup {<<"foreground", "LINK">>}]_vars
    /\ [][(bp_leds' # bp_leds /\ ~MonitorStepTaken) =>
             op' \in {"boot", "claim", "unclaim"}]_vars

C36_Witness ==
    /\ bp_leds.set = {<<"monitor", "GPS">>, <<"monitor", "REF">>, <<"foreground", "LINK">>}
    /\ pc = "init_dbinit"
    /\ mon_pc = "sample"
    /\ hw_log # <<>>

(***************************************************************************)
(* MboardRegsControl of e320_periphs.py: the calls that read a register    *)
(* and write it back, access by access, beside another opener of the same  *)
(* register window.                                                        *)
(***************************************************************************)
\* Register contents explored: as a call finds them and as another opener
\* writes them.
RegValues == { {}, AllBits, {MB_CLOCK_CTRL_REF_SEL}, AllBits \ {MB_CLOCK_CTRL_REF_SEL} }

\* Largest number of accesses of another opener followed during one call.
MaxOtherAccesses == 2

\* Largest number of calls followed from one initial register content.
MaxCalls == 2

\* What the register calls leave alone: the n3xx device.
RegsFrame ==
    UNCHANGED <<recVars, devVars, dboards, hwVars, pc, ret, op, result, hw_log,
                retry, last_failed, opLocals, ssLocals, xportVars, monVars, bp_leds>>

\* The register window admits one opener at a time.
MayEnter(owner) == owner = "none"

OwnerAfterExit_kept_on_error(err) == IF err = "" THEN "none" ELSE "caller"

\* The end of a with-block, whether its body returned or raised.
OwnerAfterExit(err) == "none"

RegsInProgress == mb_pc \notin {"idle", "done"}

\* A call arrives; enable_fp_gpio starts by calling set_fp_gpio_voltage(3.3)
\* (line 129).  The asserts come before the with-block.
RegsCall ==
    /\ mb_pc = "idle"
    /\ mb_calls < MaxCalls
    /\ mb_calls' = mb_calls + 1
    /\ \E c \in RegsCalls :
          LET fn == IF c[1] = "enable_fp_gpio" THEN "set_fp_gpio_voltage" ELSE c[1]
              fnarg == IF c[1] = "enable_fp_gpio" THEN "3.3" ELSE c[2]
          IN  /\ mb_call' = [name |-> c[1], arg |-> c[2], fn |-> fn, fnarg |-> fnarg]
              /\ IF ArgsAccepted(fn, fnarg)
                 THEN mb_pc' = "enter" /\ mb_result' = ""
                 ELSE mb_pc' = "done" /\ mb_result' = "AssertionError"
    /\ mb_log' = <<>>
    /\ mb_others' = 0
    /\ UNCHANGED <<mb_regs, mb_owner, mb_vals, mb_i, mb_err>>
    /\ RegsFrame

\* with self.regs: the calling thread opens the register window.
RegsEnter ==
    /\ mb_pc = "enter"
    /\ MayEnter(mb_owner)
    /\ mb_owner' = "caller"
    /\ mb_log' = Append(mb_log, Access("caller", "enter", "", {}))
    /\ mb_pc' = "peek"
    /\ UNCHANGED <<mb_regs, mb_call, mb_vals, mb_i, mb_err, mb_result, mb_others>>
    /\ UNCHANGED mb_calls
    /\ RegsFrame

\* The peek32 that opens every with-block, and the arithmetic on its value;
\* the access may raise.
RegsPeek ==
    /\ mb_pc = "peek"
    /\ \E ok \in BOOLEAN :
          IF ok
          THEN LET reg == RegOf(mb_call.fn)
               IN  /\ mb_vals' = PokeValues(mb_call.fn, mb_call.fnarg, mb_regs[reg])
                   /\ mb_i' = 1
                   /\ mb_log' = Append(mb_log, Access("caller", "peek", reg, mb_regs[reg]))
                   /\ mb_pc' = "poke"
                   /\ UNCHANGED mb_err
          ELSE /\ mb_err' = "RuntimeError"
               /\ mb_pc' = "exit"
               /\ UNCHANGED <<mb_vals, mb_i, mb_log>>
    /\ UNCHANGED <<mb_regs, mb_owner, mb_call, mb_result, mb_others>>
    /\ UNCHANGED mb_calls
    /\ RegsFrame

\* The next poke32 of the with-block; the access may raise.
RegsPoke ==
    /\ mb_pc = "poke"
    /\ \E ok \in BOOLEAN :
          IF ok
          THEN LET reg == RegOf(mb_call.fn)
               IN  /\ mb_regs' = [mb_regs EXCEPT ![reg] = mb_vals[mb_i]]
                   /\ mb_log' = Append(mb_log, Access("caller", "poke", reg, mb_vals[mb_i]))
                   /\ mb_i' = mb_i + 1
                   /\ mb_pc' = IF mb_i = Len(mb_vals) THEN "exit" ELSE "poke"
                   /\ UNCHANGED mb_err
          ELSE /\ mb_err' = "RuntimeError"
               /\ mb_pc' = "exit"
               /\ UNCHANGED <<mb_regs, mb_log, mb_i>>
    /\ UNCHANGED <<mb_owner, mb_call, mb_vals, mb_result, mb_others>>
    /\ UNCHANGED mb_calls
    /\ RegsFrame

\* The with-block ends.  An exception leaves the call; set_fp_gpio_voltage
\* called by enable_fp_gpio returns to line 130, whose with-block is next.
RegsExit ==
    /\ mb_pc = "exit"
    /\ mb_owner' = OwnerAfterExit(mb_err)
    /\ mb_log' = Append(mb_log, Access("caller", "exit", "", {}))
    /\ IF mb_err # ""
       THEN mb_pc' = "done" /\ mb_result' = mb_err /\ UNCHANGED mb_call
       ELSE IF mb_call.name = "enable_fp_gpio" /\ mb_call.fn = "set_fp_gpio_voltage"
            THEN /\ mb_call' = [mb_call EXCEPT !.fn = "enable_fp_gpio", !.fnarg = mb_call.arg]
                 /\ mb_pc' = "enter"
                 /\ UNCHANGED mb_result
            ELSE mb_pc' = "done" /\ mb_result' = "ok" /\ UNCHANGED mb_call
    /\ mb_vals' = <<>>
    /\ mb_i' = 0
    /\ mb_err' = ""
    /\ UNCHANGED <<mb_regs, mb_others>>
    /\ UNCHANGED mb_calls
    /\ RegsFrame

\* The call has returned to its caller.
RegsComplete ==
    /\ mb_pc = "done"
    /\ mb_pc' = "idle"
    /\ mb_call' = NoCall
    /\ mb_result' = ""
    /\ mb_log' = <<>>
    /\ mb_others' = 0
    /\ UNCHANGED <<mb_regs, mb_owner, mb_vals, mb_i, mb_err>>
    /\ UNCHANGED mb_calls
    /\ RegsFrame

\* Another opener of the register window enters it, writes a register and
\* leaves.  It is followed while a call is in progress, writing the
\* register that call is about.
OtherAccess ==
    /\ RegsInProgress
    /\ MayEnter(mb_owner)
    /\ mb_others < MaxOtherAccesses
    /\ \E v \in RegValues :
          mb_regs' = [mb_regs EXCEPT ![RegOf(mb_call.fn)] = v]
    /\ mb_log' = Append(mb_log, Access("other", "poke", "", {}))
    /\ mb_others' = mb_others + 1
    /\ UNCHANGED <<mb_owner, mb_call, mb_pc, mb_vals, mb_i, mb_err, mb_result>>
    /\ UNCHANGED mb_calls
    /\ RegsFrame

RegsNext ==
    \/ RegsCall
    \/ RegsEnter
    \/ RegsPeek
    \/ RegsPoke
    \/ RegsExit
    \/ RegsComplete
    \/ OtherAccess

\* A register block with one of the contents explored in each register,
\* nobody using it yet.
RegsInit ==
    /\ DeviceInit
    /\ dboards = <<>>
    /\ gpio = [l \in GpioLines |-> 0]
    /\ \E v \in RegValues : mb_regs = [r \in RegNames |-> v]
    /\ RegsIdle

\* MboardRegsControl called by one thread, one call at a time, beside
\* another opener of the registers.
SpecRegs == RegsInit /\ [][RegsNext]_vars

(***************************************************************************)
(* Claims about MboardRegsControl (SpecRegs).                              *)
(***************************************************************************)
\* The accesses of the calling thread in the call in progress, their kinds,
\* and its pokes.
CallerAccesses == SelectSeq(mb_log, LAMBDA e : e.who = "caller")
KindsOf(accesses) == [i \in 1..Len(accesses) |-> accesses[i].kind]
PokesOf(accesses) == SelectSeq(accesses, LAMBDA e : e.kind = "poke")

PpsSelectBits == {MB_CLOCK_CTRL_PPS_SEL_INT, MB_CLOCK_CTRL_PPS_SEL_EXT}
PpsSelectBitOf(source) ==
    IF source \in {"internal", "gpsdo"}
    THEN MB_CLOCK_CTRL_PPS_SEL_INT ELSE MB_CLOCK_CTRL_PPS_SEL_EXT

\* C39: set_time_source with internal, gpsdo or external writes MB_CLOCK_CTRL
\* and nothing else, at most twice and both times inside the one acquisition
\* it makes: the first value has both PPS select bits cleared, the second has
\* exactly the select bit of the source set (PPS_SEL_INT for internal and
\* gpsdo, PPS_SEL_EXT for external), and a call that returns has made both
\* writes.  With any other time source the call fails with its assertion and
\* has made no access to the registers at all.
C39_TimeSourceWritesClearedThenSelected ==
    mb_call.name = "set_time_source" =>
        LET mine == CallerAccesses
            pokes == PokesOf(mine)
        IN  IF mb_call.arg \in {"internal", "gpsdo", "external"}
            THEN /\ Len(pokes) <= 2
                 /\ \A i \in 1..Len(pokes) : pokes[i].reg = "MB_CLOCK_CTRL"
                 /\ Len(pokes) >= 1 => pokes[1].val \cap PpsSelectBits = {}
                 /\ Len(pokes) = 2 =>
                       pokes[2].val \cap PpsSelectBits = {PpsSelectBitOf(mb_call.arg)}
                 /\ \E n \in 0..5 :
                       KindsOf(mine) = SubSeq(<<"enter", "peek", "poke", "poke", "exit">>, 1, n)
                       \/ KindsOf(mine) = <<"enter", "exit">>
                       \/ KindsOf(mine) = <<"enter", "peek", "exit">>
                       \/ KindsOf(mine) = <<"enter", "peek", "poke", "exit">>
                 /\ (mb_pc = "done" /\ mb_result = "ok") =>
                       KindsOf(mine) = <<"enter", "peek", "poke", "poke", "exit">>
                 /\ mb_pc = "done" => mb_result # "AssertionError"
            ELSE /\ mine = <<>>
                 /\ mb_pc = "done"
                 /\ mb_result = "AssertionError"

\* set_time_source('external') has returned, another opener having written
\* the register before the call opened it.
C39_Witness ==
    /\ mb_pc = "done"
    /\ mb_result = "ok"
    /\ mb_call.name = "set_time_source"
    /\ mb_call.arg = "external"
    /\ mb_others > 0
    /\ LET pokes == PokesOf(CallerAccesses)
       IN  /\ Len(pokes) = 2
           /\ MB_CLOCK_CTRL_REF_CLK_LOCKED \notin pokes[1].val
           /\ pokes[2].val \cap PpsSelectBits = {MB_CLOCK_CTRL_PPS_SEL_EXT}

\* C40: on MB_CLOCK_CTRL, a set_clock_source that has returned has written
\* a value that differs from the value it read in no bit other than REF_SEL,
\* and a set_time_source that has returned has written only values whose
\* REF_SEL bit is as it read it, that is, as the last set_clock_source (or
\* whoever wrote the register last) left it.
C40_EachLeavesTheOthersSelectField ==
    (mb_pc = "done" /\ mb_result = "ok"
     /\ mb_call.name \in {"set_clock_source", "set_time_source"}) =>
        LET mine == CallerAccesses
            peeked == mine[2].val
            pokes == PokesOf(mine)
        IN  \A i \in 1..Len(pokes) :
               IF mb_call.name = "set_clock_source"
               THEN pokes[i].val \ {MB_CLOCK_CTRL_REF_SEL} = peeked \ {MB_CLOCK_CTRL_REF_SEL}
               ELSE pokes[i].val \cap {MB_CLOCK_CTRL_REF_SEL}
                       = peeked \cap {MB_CLOCK_CTRL_REF_SEL}

\* The positions in the log at which the calling thread opened the register
\* window, and for such a position the position at which it left it again
\* (past the end of the log while it is still inside).
EnterPositions == {i \in 1..Len(mb_log) : mb_log[i].who = "caller" /\ mb_log[i].kind = "enter"}
ExitOf(i) ==
    LET later == {j \in (i + 1)..Len(mb_log) :
                     mb_log[j].who = "caller" /\ mb_log[j].kind = "exit"}
    IN  IF later = {} THEN Len(mb_log) + 1
        ELSE CHOOSE j \in later : \A k \in later : j <= k
\* Every peek and poke of the calling thread lies inside an acquisition, and
\* no access of another opener does.
AcquisitionsExclusive ==
    /\ \A k \in 1..Len(mb_log) :
          (mb_log[k].who = "caller" /\ mb_log[k].kind \in {"peek", "poke"}) =>
              \E i \in EnterPositions : i < k /\ k < ExitOf(i)
    /\ \A i \in EnterPositions :
          \A k \in (i + 1)..(ExitOf(i) - 1) : mb_log[k].who = "caller"
\* The register window is free again once the call is over, whatever its
\* outcome, and every acquisition of the call has been left.
ReleasedWhenOver ==
    mb_pc = "done" =>
        /\ mb_owner # "caller"
        /\ \A i \in EnterPositions : ExitOf(i) <= Len(mb_log)

\* C32, as stated: each of the six calls makes all its register accesses
\* inside one acquisition, with no access of another opener between its
\* first peek and its last poke, and has released the registers when it is
\* over, however it ended.
C32_AllAccessesInOneAcquisition ==
    /\ Cardinality(EnterPositions) <= 1
    /\ AcquisitionsExclusive
    /\ ReleasedWhenOver

\* C32, amended: every acquisition of a call holds one peek and the pokes
\* that follow it, no access of another opener falls inside an acquisition,
\* and the registers are released when the call is over, however it ended.
\* set_time_source, set_clock_source, enable_gps, set_fp_gpio_voltage and
\* set_channel_mode make one acquisition; enable_fp_gpio makes two, the one
\* of set_fp_gpio_voltage and then its own, and another opener can get at
\* the registers between the two.
C32_EachReadModifyWriteInOneAcquisition ==
    /\ Cardinality(EnterPositions) <= IF mb_call.name = "enable_fp_gpio" THEN 2 ELSE 1
    /\ AcquisitionsExclusive
    /\ \A i \in EnterPositions :
          Cardinality({k \in (i + 1)..(ExitOf(i) - 1) : mb_log[k].kind = "peek"}) <= 1
    /\ ReleasedWhenOver

\* enable_fp_gpio has returned; between its two acquisitions another opener
\* wrote MB_GPIO_CTRL.
C32_Witness ==
    /\ mb_pc = "done"
    /\ mb_result = "ok"
    /\ mb_call.name = "enable_fp_gpio"
    /\ mb_owner = "none"
    /\ [i \in 1..Len(mb_log) |-> <<mb_log[i].who, mb_log[i].kind>>]
          = << <<"caller", "enter">>, <<"caller", "peek">>, <<"caller", "poke">>,
               <<"caller", "exit">>, <<"other", "poke">>,
               <<"caller", "enter">>, <<"caller", "peek">>, <<"caller", "poke">>,
               <<"caller", "exit">> >>

====
